---- MODULE Spec2Model ----
(***************************************************************************)
(* A model of the learning feature's generation pipeline:                  *)
(*   - QuizGenerator.parseResponse with its choice repair and padding,     *)
(*     and QuizManager.toProto (specification SpecParse);                  *)
(*   - CurriculumGenerator.generate / QuizGenerator.generate driven by the *)
(*     generateCurriculum / generateQuiz handlers (specification SpecGen); *)
(*   - task progress and learning statistics (SpecProgress, SpecHistory,   *)
(*     SpecRegen, SpecSkew, SpecStreak);                                   *)
(*   - the quiz files, the quiz analysis and the .onboarding directory     *)
(*     (SpecQuiz, SpecAnalyze), ProjectAnalyzer (SpecWalk, SpecPatterns)   *)
(*     and the curriculum view's status checkbox (SpecView);               *)
(*   - the subscriptions to the learning button (SpecSubscribe).           *)
(***************************************************************************)
EXTENDS Integers, Sequences, FiniteSets, TLC

\* ---------------------------------------------------------------- bounds
\* Longest choice list the model lets the LLM emit for one question.
MaxChoices == 3
\* Longest question list the model lets the LLM emit.
MaxEmitted == 6
\* Largest number of target technologies of a quiz.
MaxTechs == 2
\* Largest number of chunks of one LLM stream.
MaxChunks == 3
\* Last day (counted from day 0) on which the clock is read.
MaxDay == 1
\* Largest number of curricula generated in one run.
MaxCurricula == 2
\* Largest number of times the wall clock is set back in one run.
MaxSetBacks == 1
\* Last day (counted from day 0) of the date lists handed to calculateStreak.
MaxDate == 5
\* Largest number of questions of a quiz handed to analyze.
MaxAsked == 5
\* Largest number of subscribers to the learning button in one run.
MaxSubscribers == 2
\* Largest number of sendLearningButtonClickedEvent calls in one run.
MaxSends == 2
\* Largest number of quizzes saved in one run.
MaxQuizzes == 2
\* Largest number of nested directory levels of a walked tree (the root is
\* level 1, at depth 0).
MaxLevels == 6
\* Largest number of subdirectories of one directory of a walked tree.
MaxSubdirs == 3
\* Largest number of ordinary files of one directory of a walked tree.
MaxFiles == 51
\* Largest number of indicator directories a workspace holds.
MaxPresent == 3
\* Largest number of clicks on status checkboxes in one run.
MaxClicks == 3

\* ------------------------------------------------------- program constants
\* The number of questions of a quiz.
QuizSize == 5
\* ProjectAnalyzer: the walk reads no directory at this depth or deeper.
MAX_DEPTH == 4
\* ProjectAnalyzer: the walk lists at most this many files of one directory.
MAX_FILES_PER_DIR == 50
\* ProjectAnalyzer: the walk lists at most this many files in all.
MAX_TOTAL_FILES == 500

VARIABLES
    \* --- QuizGenerator.parseResponse / QuizManager.toProto
    techs,       \* targetTechnologies handed to parseResponse
    emitted,     \* parsed.questions: the question list the LLM emitted
    quiz,        \* the QuizData parseResponse returned
    proto,       \* the Quiz message toProto built from it
    pstage,      \* "emitted" -> "parsed" -> "projected"
    \* --- the request and its environment (fixed during a run)
    kind,               \* "curriculum": generateCurriculum, "quiz": generateQuiz
    hasWorkspace,       \* getCwd() returned a path
    hasApiConfig,       \* stateManager.getApiConfiguration() returned one
    hasProfile,         \* .onboarding/user_profile.json can be loaded
    forceRegenerate,    \* request.forceRegenerate
    hasRequestId,       \* the transport passed a requestId
    reqTechs,           \* request.technologies.length
    detected,           \* number of technologies detectTechnologies() finds
    useProjectContext,  \* request.useProjectContext
    \* --- persisted documents under .onboarding
    curriculumFile,     \* "none", "corrupt" or the id of the stored curriculum
    quizFile,           \* "none" or the id of the stored quiz
    answersFile,        \* quiz-answers.json: the recorded answers
    \* --- the handler and the generator it consumes
    pc,                 \* handler: "init" -> "loop" -> "done"
    gpc,                \* generator: the step it runs when resumed
    events,             \* the progress events the generator has yielded
    sent,               \* the messages written to the response stream
    llmCalls,           \* calls of apiHandler.createMessage
    chunkLog,           \* the chunks received from the LLM stream
    profile,            \* what loadProfile returned
    target,             \* targetTechnologies.length
    failed,             \* the step that threw ("none" while none did)
    registered,         \* the cancel callback is registered
    cancelled,          \* the caller cancelled the request
    savedDoc,           \* the document this run saved ("none" while none)
    \* --- task progress and learning statistics
    curriculum,         \* .onboarding/curriculum.json as CurriculumManager loads it
    statistics,         \* .onboarding/learning-stats.json as LearningStatisticsManager loads it
    now,                \* the wall clock (new Date()), in ticks
    response,           \* what the last updateTaskProgress call answered
    issued,             \* the number of curricula generated so far
    setBacks,           \* the number of times the clock was set back
    writesFail,         \* a write of fs.writeFile may fail in this run
    outline,            \* the number of tasks of each chapter the LLM emits
    \* --- LearningStatisticsManager.calculateStreak
    dates,              \* the date list handed to calculateStreak
    streak,             \* what it returned (Absent before the call)
    \* --- the files under .onboarding
    onboarding,         \* which of the directory, .gitignore, README.md and user_profile.json exist
    quizFiles,          \* quiz.json, quiz-answers.json and quiz-result.json as QuizManager loads them
    checked,            \* what the last checkAnswer / submitQuizAnswer call returned
    quizzes,            \* the number of quizzes saved so far
    \* --- QuizResultAnalyzer.analyze
    taken,              \* the questions of the quiz handed to analyze
    given,              \* the answers handed to analyze
    analysis,           \* what it returned (Pending before the call)
    \* --- ProjectAnalyzer
    tree,               \* the directory tree under the workspace, level by level
    walked,             \* what analyzeStructure did with it (Pending before the call)
    present,            \* the indicator directories that exist
    patterns,           \* what detectPatterns returned (Pending before the call)
    \* --- CurriculumView
    shown,              \* the curriculum the view holds (its React state)
    clicks,             \* the clicks on a status checkbox so far, in order
    \* --- subscribeToLearningButtonClicked
    activeLearningButtonClickedSubscriptions,  \* the Set of response streams
    streams,            \* each response stream: its request, its calls and their outcome
    sends               \* the number of sendLearningButtonClickedEvent calls so far

parseVars == <<techs, emitted, quiz, proto, pstage>>

envVars == <<kind, hasWorkspace, hasApiConfig, hasProfile, forceRegenerate, hasRequestId,
             reqTechs, detected, useProjectContext>>

fileVars == <<curriculumFile, quizFile, answersFile>>

\* What yielding an event changes: the event log and whatever the handler's
\* loop body does with the event.
yieldVars == <<events, sent, pc, curriculumFile, quizFile, answersFile, savedDoc, onboarding>>

runVars == <<pc, gpc, events, sent, llmCalls, chunkLog, profile, target, failed,
             registered, cancelled, savedDoc>>

progVars == <<curriculum, statistics, now, response, issued, setBacks, writesFail, outline,
              dates, streak>>

quizVars == <<quizFiles, checked, quizzes>>

scanVars == <<taken, given, analysis, tree, walked, present, patterns>>

viewVars == <<shown, clicks>>

subVars == <<activeLearningButtonClickedSubscriptions, streams, sends>>

\* The state of the components that have a specification of their own.
otherVars == <<quizVars, scanVars, viewVars, subVars>>

vars == <<parseVars, envVars, fileVars, runVars, progVars, onboarding, otherVars>>

\* ------------------------------------------------------------ JS helpers
\* A JSON field the LLM left out (JavaScript undefined).
Undef == "undefined"

\* x || d for a string field.
OrElse(x, d) == IF x = Undef \/ x = "" THEN d ELSE x

\* The technology names a request can target, in request order.
TechNames == <<"TypeScript", "React", "Docker", "Go">>

TargetTechs(n) == SubSeq(TechNames, 1, n)

\* ------------------------------------------------- what the LLM may emit
\* isCorrect as emitted: the boolean true, the boolean false (or absent), or a
\* truthy value that is not the boolean true ("true", 1).
EmittedFlags == {"true", "false", "truthy"}

EmittedChoices == [id: {"A", "B", Undef}, text: {"x", Undef}, isCorrect: EmittedFlags]

RECURSIVE SeqsUpTo(_, _)
SeqsUpTo(S, n) ==
    IF n = 0 THEN {<<>>}
    ELSE LET shorter == SeqsUpTo(S, n - 1)
         IN  shorter \cup {Append(s, x) : s \in {t \in shorter : Len(t) = n - 1}, x \in S}

\* One question with every choice list up to MaxChoices.
RichQuestions ==
    {[technology |-> Undef, difficulty |-> "advanced", explanation |-> "e",
      hasChoices |-> TRUE, choices |-> cs] : cs \in SeqsUpTo(EmittedChoices, MaxChoices)}

Ch(id, flag) == [id |-> id, text |-> "x", isCorrect |-> flag]

\* Questions of the shapes the repair distinguishes: no choices key, no correct
\* choice, several correct ones, exactly one (RichQuestions has the empty list).
QuestionPool ==
    { [technology |-> Undef, difficulty |-> Undef, explanation |-> Undef,
       hasChoices |-> FALSE, choices |-> <<>>],
      [technology |-> "Go", difficulty |-> "beginner", explanation |-> "e",
       hasChoices |-> TRUE, choices |-> <<Ch("A", "false"), Ch("B", "false")>>],
      [technology |-> Undef, difficulty |-> "expert", explanation |-> "e",
       hasChoices |-> TRUE, choices |-> <<Ch("A", "true"), Ch("B", "true")>>],
      [technology |-> "React", difficulty |-> "advanced", explanation |-> "e",
       hasChoices |-> TRUE, choices |-> <<Ch("A", "false"), Ch("B", "true")>>] }

\* ------------------------------------------- QuizGenerator.parseResponse
\* choices.map(c => ({id: c.id || "", text: c.text || "", isCorrect: c.isCorrect === true}))
normalizeChoice(c) ==
    [id |-> OrElse(c.id, ""), text |-> OrElse(c.text, ""), isCorrect |-> (c.isCorrect = "true")]

correctCount(choices) == Cardinality({i \in 1..Len(choices) : choices[i].isCorrect})

\* The index of the first choice flagged correct (0 when there is none).
firstCorrect(choices) ==
    IF correctCount(choices) = 0 THEN 0
    ELSE CHOOSE i \in 1..Len(choices) :
            choices[i].isCorrect /\ \A j \in 1..(i - 1) : ~choices[j].isCorrect

\* A mutated repair: of several correct choices the last one is kept.
repairChoices_keepLast(choices) ==
    IF correctCount(choices) = 1 THEN choices
    ELSE IF correctCount(choices) = 0 /\ Len(choices) > 0
         THEN [choices EXCEPT ![1].isCorrect = TRUE]
    ELSE IF correctCount(choices) > 1
         THEN [i \in 1..Len(choices) |->
                 [choices[i] EXCEPT !.isCorrect =
                     choices[i].isCorrect /\ \A j \in (i + 1)..Len(choices) : ~choices[j].isCorrect]]
    ELSE choices

\* if (correctCount !== 1) { first := correct when none; keep the first correct when several }
repairChoices(choices) ==
    IF correctCount(choices) = 1 THEN choices
    ELSE IF correctCount(choices) = 0 /\ Len(choices) > 0
         THEN [choices EXCEPT ![1].isCorrect = TRUE]
    ELSE IF correctCount(choices) > 1
         THEN [i \in 1..Len(choices) |->
                 [choices[i] EXCEPT !.isCorrect = (i = firstCorrect(choices))]]
    ELSE choices

validateDifficulty(d) ==
    IF d \in {"beginner", "intermediate", "advanced"} THEN d ELSE "intermediate"

\* technologies[questionNumber % technologies.length] || "General"
placeholderTech(questionNumber, n) ==
    IF n = 0 THEN "General" ELSE TargetTechs(n)[(questionNumber % n) + 1]

createPlaceholderQuestion(questionNumber, n) ==
    [id |-> questionNumber,
     questionNumber |-> questionNumber,
     technology |-> placeholderTech(questionNumber, n),
     difficulty |-> IF questionNumber <= 2 THEN "beginner"
                    ELSE IF questionNumber <= 4 THEN "intermediate" ELSE "advanced",
     choices |-> << [id |-> "A", text |-> "A", isCorrect |-> TRUE],
                    [id |-> "B", text |-> "B", isCorrect |-> FALSE],
                    [id |-> "C", text |-> "C", isCorrect |-> FALSE],
                    [id |-> "D", text |-> "D", isCorrect |-> FALSE] >>,
     explanation |-> "placeholder"]

\* The body of parsed.questions.map((q, idx) => ...); idx is 1-based here, and
\* the fresh uuid of a question is modelled by its position.
mapQuestion(q, idx, n) ==
    [id |-> idx,
     questionNumber |-> idx,
     technology |-> OrElse(q.technology, IF n > 0 THEN TargetTechs(n)[1] ELSE "General"),
     difficulty |-> validateDifficulty(q.difficulty),
     choices |-> LET cs == IF q.hasChoices THEN q.choices ELSE <<>>   \* q.choices || []
                 IN  repairChoices([i \in 1..Len(cs) |-> normalizeChoice(cs[i])]),
     explanation |-> OrElse(q.explanation, "")]

\* while (questions.length < 5) questions.push(createPlaceholderQuestion(length + 1, techs))
padQuestions(questions, n) ==
    [i \in 1..(IF Len(questions) < QuizSize THEN QuizSize ELSE Len(questions)) |->
        IF i <= Len(questions) THEN questions[i] ELSE createPlaceholderQuestion(i, n)]

\* A mutated cut: the quiz keeps every question the LLM emitted.
sliceQuestions_noCut(questions) == questions

\* questions.slice(0, 5)
sliceQuestions(questions) ==
    SubSeq(questions, 1, IF Len(questions) < QuizSize THEN Len(questions) ELSE QuizSize)

\* parseResponse once the fenced block is parsed and holds a questions array.
parseQuestions(qs, n) ==
    [questions |-> sliceQuestions(padQuestions([i \in 1..Len(qs) |-> mapQuestion(qs[i], i, n)], n)),
     targetTechnologies |-> TargetTechs(n)]

\* ------------------------------------------------- QuizManager.toProto
\* A mutated projection: hideCorrect defaults to false.
choiceToProto_leak(c) == [id |-> c.id, text |-> c.text, isCorrect |-> c.isCorrect]

\* choiceToProto(c, hideCorrect = true)
choiceToProto(c) == [id |-> c.id, text |-> c.text, isCorrect |-> FALSE]

questionToProto(q) ==
    [q EXCEPT !.choices = [i \in 1..Len(q.choices) |-> choiceToProto(q.choices[i])]]

toProto(data) ==
    [data EXCEPT !.questions = [i \in 1..Len(data.questions) |-> questionToProto(data.questions[i])]]

NoQuiz == [questions |-> <<>>, targetTechnologies |-> <<>>]

\* A missing optional field (startedAt, completedAt) or a value not yet computed.
Absent == 0 - 1

\* No curriculum.json can be loaded.
NoCurriculum == [exists |-> FALSE]

\* No learning-stats.json can be loaded.
NoStatistics == [exists |-> FALSE]

\* What updateTaskProgress answered: the call, its success flag and what it
\* logged with console.error ("" when nothing).
Response(op, success, log) == [op |-> op, success |-> success, log |-> log]

NoResponse == Response("none", FALSE, "")

\* No progress call has been made (the state of these variables under
\* SpecParse and SpecGen).
NoProgress ==
    /\ curriculum = NoCurriculum /\ statistics = NoStatistics
    /\ now = 1 /\ response = NoResponse /\ issued = 0 /\ setBacks = 0
    /\ writesFail = FALSE /\ outline = <<>>
    /\ dates = <<>> /\ streak = Absent

\* ------------------------------------------------ the .onboarding directory
\* Nothing exists under the workspace yet: no .onboarding directory and none
\* of the files the learning feature keeps in it.
NoOnboarding == [dir |-> FALSE, gitignore |-> FALSE, readme |-> FALSE, profile |-> FALSE]

\* fs.mkdir(onboardingPath, { recursive: true })
mkdir(env) == [env EXCEPT !.dir = TRUE]

\* A file that does not exist.
NoFile == [exists |-> FALSE]

\* No quiz.json, no quiz-answers.json and no quiz-result.json.
NoQuizFiles == [quiz |-> NoFile, answers |-> NoFile, result |-> NoFile]

\* The value of a variable that holds what a call returned, before the call.
Pending == [pending |-> TRUE]

\* The response streams that may subscribe.
Subscribers == 1..MaxSubscribers

\* A response stream that has not subscribed: no request, no call.
NoStream == [request |-> "none", handed |-> <<>>, pending |-> {}, failed |-> FALSE]

\* The module-level Set is empty and sendLearningButtonClickedEvent was never
\* called.
NoSubscriptions ==
    /\ activeLearningButtonClickedSubscriptions = {}
    /\ streams = [s \in Subscribers |-> NoStream]
    /\ sends = 0

\* No quiz call, no analysis and no view (the state of these variables under
\* the specifications of the other components).
NoOther ==
    /\ quizFiles = NoQuizFiles /\ checked = Pending /\ quizzes = 0
    /\ taken = <<>> /\ given = <<>> /\ analysis = Pending
    /\ tree = <<>> /\ walked = Pending
    /\ present = {} /\ patterns = Pending
    /\ shown = NoCurriculum /\ clicks = <<>>
    /\ NoSubscriptions

\* No request is being served (the state of the request variables under SpecParse).
NoRequest ==
    /\ kind = "quiz"
    /\ hasWorkspace = TRUE /\ hasApiConfig = TRUE /\ hasProfile = FALSE
    /\ forceRegenerate = FALSE /\ hasRequestId = FALSE
    /\ reqTechs = 0 /\ detected = 0 /\ useProjectContext = FALSE
    /\ curriculumFile = "none" /\ quizFile = "none" /\ answersFile = <<>>
    /\ pc = "done" /\ gpc = "idle"
    /\ events = <<>> /\ sent = <<>>
    /\ llmCalls = 0 /\ chunkLog = <<>>
    /\ profile = "unread" /\ target = 0 /\ failed = "none"
    /\ registered = FALSE /\ cancelled = FALSE /\ savedDoc = "none"

\* ----------------------------------------------------- SpecParse
InitParse ==
    /\ \/ /\ techs = 1
          /\ emitted \in {<<q>> : q \in RichQuestions}
       \/ /\ techs \in 1..MaxTechs
          /\ emitted \in SeqsUpTo(QuestionPool, MaxEmitted)
    /\ quiz = NoQuiz
    /\ proto = NoQuiz
    /\ pstage = "emitted"
    /\ NoRequest
    /\ NoProgress
    /\ onboarding = NoOnboarding
    /\ NoOther

\* const quiz = this.parseResponse(fullResponse, targetTechnologies)
ParseQuiz ==
    /\ pstage = "emitted"
    /\ quiz' = parseQuestions(emitted, techs)
    /\ pstage' = "parsed"
    /\ UNCHANGED <<techs, emitted, proto, envVars, fileVars, runVars, progVars,
                   onboarding, otherVars>>

\* partialQuiz: quizManager.toProto(progress.partialQuiz)
ProjectQuiz ==
    /\ pstage = "parsed"
    /\ proto' = toProto(quiz)
    /\ pstage' = "projected"
    /\ UNCHANGED <<techs, emitted, quiz, envVars, fileVars, runVars, progVars,
                   onboarding, otherVars>>

NextParse == ParseQuiz \/ ProjectQuiz

SpecParse == InitParse /\ [][NextParse]_vars

\* ======================================================================
\* The generation pipeline: generateCurriculum / generateQuiz consuming
\* CurriculumGenerator.generate() / QuizGenerator.generate().
\* ======================================================================

\* ----------------------------------------------------- the LLM's reply
\* A text chunk carries one piece of the reply: the opening fence ```json,
\* a bare fence ```, a JSON object of the requested shape, a JSON object
\* without the requested keys, or text that is not JSON. "usage" is a chunk
\* whose type is not "text".
TextTokens == {"fj", "f", "obj", "noq", "bad"}

ChunkKinds == TextTokens \cup {"usage"}

\* chunk.text.length
TokenLen(t) ==
    CASE t = "fj"  -> 7
      [] t = "f"   -> 3
      [] t = "obj" -> 2400
      [] t = "noq" -> 40
      [] t = "bad" -> 60

IsText(c) == c \in TextTokens

\* fullResponse: the text chunks received so far, concatenated.
fullResponse(log) == SelectSeq(log, IsText)

RECURSIVE textLength(_)
textLength(tokens) ==
    IF tokens = <<>> THEN 0 ELSE TokenLen(Head(tokens)) + textLength(Tail(tokens))

MinOf(a, b) == IF a < b THEN a ELSE b

\* A mutated progress: the percentage is not capped.
curriculumPercent_uncapped(len) == 50 + (len \div 50)

\* Math.min(90, 50 + Math.floor(fullResponse.length / 50))
curriculumPercent(len) == MinOf(90, 50 + (len \div 50))

\* Math.min(85, 40 + Math.floor(fullResponse.length / 30))
quizPercent(len) == MinOf(85, 40 + (len \div 30))

\* A mutated match: a reply without a fenced block is taken whole.
extractJson_lenient(tokens) ==
    LET opens == {i \in 1..Len(tokens) : tokens[i] = "fj"}
    IN  IF opens = {} THEN [matched |-> TRUE, body |-> tokens]
        ELSE LET i0 == CHOOSE i \in opens : \A k \in opens : i <= k
                 closes == {j \in (i0 + 1)..Len(tokens) : tokens[j] \in {"f", "fj"}}
             IN  IF closes = {} THEN [matched |-> TRUE, body |-> SubSeq(tokens, i0 + 1, Len(tokens))]
                 ELSE LET j0 == CHOOSE j \in closes : \A k \in closes : j <= k
                      IN  [matched |-> TRUE, body |-> SubSeq(tokens, i0 + 1, j0 - 1)]

\* response.match(/```json\s*([\s\S]*?)\s*```/): the text between the first
\* ```json and the first ``` after it (the opening of a later ```json block
\* is such a ```).
extractJson(tokens) ==
    LET opens == {i \in 1..Len(tokens) : tokens[i] = "fj"}
    IN  IF opens = {} THEN [matched |-> FALSE, body |-> <<>>]
        ELSE LET i0 == CHOOSE i \in opens : \A k \in opens : i <= k
                 closes == {j \in (i0 + 1)..Len(tokens) : tokens[j] \in {"f", "fj"}}
             IN  IF closes = {} THEN [matched |-> FALSE, body |-> <<>>]
                 ELSE LET j0 == CHOOSE j \in closes : \A k \in closes : j <= k
                      IN  [matched |-> TRUE, body |-> SubSeq(tokens, i0 + 1, j0 - 1)]

\* JSON.parse(text) returns (does not throw): the text is one JSON value.
jsonParses(body) == Len(body) = 1 /\ body[1] \in {"obj", "noq"}

\* CurriculumGenerator.parseResponse returns a curriculum: missing keys take
\* their defaults, so any JSON object is accepted.
curriculumParses(tokens) ==
    LET m == extractJson(tokens) IN m.matched /\ jsonParses(m.body)

\* QuizGenerator.parseResponse returns a quiz: the object must hold a
\* questions array.
quizParses(tokens) ==
    LET m == extractJson(tokens) IN m.matched /\ jsonParses(m.body) /\ m.body[1] = "obj"

\* ------------------------------------------------ events and messages
Ev(phase, pct, doc) == [phase |-> phase, pct |-> pct, doc |-> doc]

Msg(phase, pct, doc, last) == [phase |-> phase, pct |-> pct, doc |-> doc, last |-> last]

ErrorMsg == Msg("error", 0, "none", TRUE)

\* A mutated loop body: the message is sent before the save, so that a failed
\* save leaves a completed message followed by the error message.
HandleCurriculumEvent_sendFirst(ev, saveOk) ==
    LET isLast == ev.phase \in {"completed", "error"}
        mustSave == ev.phase = "completed" /\ ev.doc # "none"
        msg == Msg(ev.phase, ev.pct, ev.doc, isLast)
    IN  /\ UNCHANGED <<quizFile, answersFile>>
        /\ onboarding' = IF mustSave /\ saveOk THEN mkdir(onboarding) ELSE onboarding
        /\ IF mustSave /\ ~saveOk
           THEN /\ sent' = sent \o <<msg, ErrorMsg>>
                /\ pc' = "done"
                /\ UNCHANGED <<curriculumFile, savedDoc>>
           ELSE /\ curriculumFile' = IF mustSave THEN ev.doc ELSE curriculumFile
                /\ savedDoc' = IF mustSave THEN ev.doc ELSE savedDoc
                /\ sent' = Append(sent, msg)
                /\ pc' = IF isLast THEN "done" ELSE pc

\* ------------------------------------ generateCurriculum: the loop body
\* for await (const progress of generator.generate()) { ... }: save on a
\* completed event that carries a curriculum, then send; saveOk = FALSE is
\* saveCurriculum throwing, which the handler's catch turns into an error
\* message.
HandleCurriculumEvent(ev, saveOk) ==
    LET isLast == ev.phase \in {"completed", "error"}
        mustSave == ev.phase = "completed" /\ ev.doc # "none"
    IN  /\ UNCHANGED <<quizFile, answersFile>>
        /\ onboarding' = IF mustSave /\ saveOk THEN mkdir(onboarding) ELSE onboarding
        /\ IF mustSave /\ ~saveOk
           THEN /\ sent' = Append(sent, ErrorMsg)
                /\ pc' = "done"
                /\ UNCHANGED <<curriculumFile, savedDoc>>
           ELSE /\ curriculumFile' = IF mustSave THEN ev.doc ELSE curriculumFile
                /\ savedDoc' = IF mustSave THEN ev.doc ELSE savedDoc
                /\ sent' = Append(sent, Msg(ev.phase, ev.pct, ev.doc, isLast))
                /\ pc' = IF isLast THEN "done" ELSE pc

\* ------------------------------------------- generateQuiz: the loop body
\* saveQuiz writes quiz.json and then clears the recorded answers.
HandleQuizEvent(ev, saveOk) ==
    LET isLast == ev.phase \in {"completed", "error"}
        mustSave == ev.phase = "completed" /\ ev.doc # "none"
    IN  /\ UNCHANGED curriculumFile
        /\ onboarding' = IF mustSave /\ saveOk THEN mkdir(onboarding) ELSE onboarding
        /\ IF mustSave /\ ~saveOk
           THEN /\ sent' = Append(sent, ErrorMsg)
                /\ pc' = "done"
                /\ UNCHANGED <<quizFile, answersFile, savedDoc>>
           ELSE /\ quizFile' = IF mustSave THEN ev.doc ELSE quizFile
                /\ answersFile' = IF mustSave THEN <<>> ELSE answersFile
                /\ savedDoc' = IF mustSave THEN ev.doc ELSE savedDoc
                /\ sent' = Append(sent, Msg(ev.phase, ev.pct, ev.doc, isLast))
                /\ pc' = IF isLast THEN "done" ELSE pc

\* The generator yields ev and is suspended until the consumer has run its
\* loop body on it.
YieldCurriculum(ev) ==
    /\ events' = Append(events, ev)
    /\ \E saveOk \in BOOLEAN : HandleCurriculumEvent(ev, saveOk)

YieldQuiz(ev) ==
    /\ events' = Append(events, ev)
    /\ \E saveOk \in BOOLEAN : HandleQuizEvent(ev, saveOk)

\* ------------------------------------------------ generateCurriculum
\* A loadable curriculum is persisted and the request does not force a new one.
servesExisting_ignoreForce(force, file) == file \notin {"none", "corrupt"}

\* A mutated test: the persisted curriculum is served on forceRegenerate only.
servesExisting_onlyForce(force, file) == force /\ file \notin {"none", "corrupt"}

servesExisting(force, file) == ~force /\ file \notin {"none", "corrupt"}

\* The handler up to the loop: the workspace check, deleteCurriculum or the
\* answer from the persisted curriculum, the API configuration check, the
\* registration of the cancel callback.
HC_Start ==
    /\ kind = "curriculum" /\ pc = "init"
    /\ UNCHANGED <<onboarding, otherVars, progVars, parseVars, envVars, quizFile, answersFile, events, llmCalls, chunkLog,
                   profile, target, failed, cancelled, savedDoc>>
    /\ IF ~hasWorkspace
       THEN /\ sent' = Append(sent, ErrorMsg)
            /\ pc' = "done"
            /\ UNCHANGED <<curriculumFile, gpc, registered>>
       ELSE IF servesExisting(forceRegenerate, curriculumFile)
       THEN /\ sent' = Append(sent, Msg("completed", 100, curriculumFile, TRUE))
            /\ pc' = "done"
            /\ UNCHANGED <<curriculumFile, gpc, registered>>
       ELSE /\ curriculumFile' = IF forceRegenerate THEN "none" ELSE curriculumFile
            /\ IF ~hasApiConfig
               THEN /\ sent' = Append(sent, ErrorMsg)
                    /\ pc' = "done"
                    /\ UNCHANGED <<gpc, registered>>
               ELSE /\ registered' = hasRequestId
                    /\ gpc' = "start"
                    /\ pc' = "loop"
                    /\ UNCHANGED sent

\* ---------------------------------------- CurriculumGenerator.generate
\* A mutated catch: the failure is swallowed and the LLM is asked again.
CG_Catch_retry(step) ==
    /\ failed' = step
    /\ gpc' = "call"
    /\ UNCHANGED yieldVars

\* catch (error) { yield { phase: "error", ... } }
CG_Catch(step) ==
    /\ failed' = step
    /\ gpc' = "final"
    /\ YieldCurriculum(Ev("error", 0, "none"))

CG_Running == kind = "curriculum" /\ pc = "loop"

CG_Start ==
    /\ CG_Running /\ gpc = "start"
    /\ gpc' = "analyze"
    /\ YieldCurriculum(Ev("analyzing", 10, "none"))
    /\ UNCHANGED <<otherVars, progVars, parseVars, envVars, llmCalls, chunkLog, profile, target, failed,
                   registered, cancelled>>

\* await analyzer.analyze(), which may throw
CG_Analyze ==
    /\ CG_Running /\ gpc = "analyze"
    /\ \E ok \in BOOLEAN :
          IF ok THEN /\ gpc' = "detect"
                     /\ YieldCurriculum(Ev("analyzing", 30, "none"))
                     /\ UNCHANGED failed
          ELSE CG_Catch("analysis")
    /\ UNCHANGED <<otherVars, progVars, parseVars, envVars, llmCalls, chunkLog, profile, target,
                   registered, cancelled>>

\* await techDetector.detectTechnologies(), which catches its own errors
CG_Detect ==
    /\ CG_Running /\ gpc = "detect"
    /\ gpc' = "profile"
    /\ target' = detected
    /\ YieldCurriculum(Ev("analyzing", 40, "none"))
    /\ UNCHANGED <<otherVars, progVars, parseVars, envVars, llmCalls, chunkLog, profile, failed,
                   registered, cancelled>>

\* await profileManager.loadProfile(): null when no profile can be read
CG_LoadProfile ==
    /\ CG_Running /\ gpc = "profile"
    /\ profile' = IF hasProfile THEN "loaded" ELSE "null"
    /\ gpc' = "call"
    /\ YieldCurriculum(Ev("generating", 50, "none"))
    /\ UNCHANGED <<otherVars, progVars, parseVars, envVars, llmCalls, chunkLog, target, failed,
                   registered, cancelled>>

\* buildPrompt, buildApiHandler (which may throw), createMessage
CG_CallLLM ==
    /\ CG_Running /\ gpc = "call"
    /\ \E ok \in BOOLEAN :
          IF ok THEN /\ llmCalls' = llmCalls + 1
                     /\ gpc' = "stream"
                     /\ UNCHANGED <<failed, yieldVars>>
          ELSE /\ CG_Catch("api")
               /\ UNCHANGED llmCalls
    /\ UNCHANGED <<otherVars, progVars, parseVars, envVars, chunkLog, profile, target, registered, cancelled>>

\* one chunk of the stream: a text chunk is appended and reported
CG_Chunk ==
    /\ CG_Running /\ gpc = "stream"
    /\ Len(chunkLog) < MaxChunks
    /\ \E c \in ChunkKinds :
          /\ chunkLog' = Append(chunkLog, c)
          /\ IF IsText(c)
             THEN YieldCurriculum(Ev("generating",
                                     curriculumPercent(textLength(fullResponse(chunkLog'))), "none"))
             ELSE UNCHANGED yieldVars
    /\ UNCHANGED <<otherVars, progVars, parseVars, envVars, gpc, llmCalls, profile, target, failed,
                   registered, cancelled>>

\* the stream throws
CG_StreamFail ==
    /\ CG_Running /\ gpc = "stream"
    /\ CG_Catch("stream")
    /\ UNCHANGED <<onboarding, otherVars, progVars, parseVars, envVars, llmCalls, chunkLog, profile, target,
                   registered, cancelled>>

\* the stream ends
CG_StreamEnd ==
    /\ CG_Running /\ gpc = "stream"
    /\ gpc' = "parse"
    /\ YieldCurriculum(Ev("generating", 95, "none"))
    /\ UNCHANGED <<otherVars, progVars, parseVars, envVars, llmCalls, chunkLog, profile, target, failed,
                   registered, cancelled>>

\* parseResponse(fullResponse, summary); the new curriculum has a fresh id
CG_Parse ==
    /\ CG_Running /\ gpc = "parse"
    /\ IF curriculumParses(fullResponse(chunkLog))
       THEN /\ gpc' = "final"
            /\ YieldCurriculum(Ev("completed", 100, "new"))
            /\ UNCHANGED failed
       ELSE CG_Catch("parse")
    /\ UNCHANGED <<otherVars, progVars, parseVars, envVars, llmCalls, chunkLog, profile, target,
                   registered, cancelled>>

\* ------------------------------------------------------- generateQuiz
HQ_Start ==
    /\ kind = "quiz" /\ pc = "init"
    /\ UNCHANGED <<onboarding, otherVars, progVars, parseVars, envVars, fileVars, events, llmCalls, chunkLog,
                   profile, target, failed, cancelled, savedDoc>>
    /\ IF ~hasWorkspace \/ ~hasApiConfig
       THEN /\ sent' = Append(sent, ErrorMsg)
            /\ pc' = "done"
            /\ UNCHANGED <<gpc, registered>>
       ELSE /\ registered' = hasRequestId
            /\ gpc' = "start"
            /\ pc' = "loop"
            /\ UNCHANGED sent

\* ---------------------------------------------- QuizGenerator.generate
\* Technologies kept of those detected.
TopTechs == 5

\* A mutated check: an empty technology list is let through.
noTechnology_never(n) == FALSE

\* if (targetTechnologies.length === 0) throw
noTechnology(n) == n = 0

\* catch (error) { yield { phase: "error", ... } }
QG_Catch(step) ==
    /\ failed' = step
    /\ gpc' = "final"
    /\ YieldQuiz(Ev("error", 0, "none"))

QG_Running == kind = "quiz" /\ pc = "loop"

\* The yield of detecting 20 when technologies are known, else the throw.
QG_Resolved(n) ==
    /\ target' = n
    /\ IF noTechnology(n)
       THEN QG_Catch("notech")
       ELSE /\ gpc' = "context"
            /\ YieldQuiz(Ev("detecting", 20, "none"))
            /\ UNCHANGED failed

\* the request names no technology: detection is announced; else the list is used
QG_Start ==
    /\ QG_Running /\ gpc = "start"
    /\ IF reqTechs = 0
       THEN /\ gpc' = "detect"
            /\ YieldQuiz(Ev("detecting", 10, "none"))
            /\ UNCHANGED <<target, failed>>
       ELSE QG_Resolved(reqTechs)
    /\ UNCHANGED <<otherVars, progVars, parseVars, envVars, llmCalls, chunkLog, profile, registered, cancelled>>

\* detectTechnologies().slice(0, 5)
QG_Detect ==
    /\ QG_Running /\ gpc = "detect"
    /\ QG_Resolved(MinOf(detected, TopTechs))
    /\ UNCHANGED <<onboarding, otherVars, progVars, parseVars, envVars, llmCalls, chunkLog, profile, registered, cancelled>>

\* with useProjectContext the analysis is announced; else generation is
QG_Context ==
    /\ QG_Running /\ gpc = "context"
    /\ IF useProjectContext
       THEN /\ gpc' = "analyze"
            /\ YieldQuiz(Ev("detecting", 30, "none"))
       ELSE /\ gpc' = "call"
            /\ YieldQuiz(Ev("generating", 40, "none"))
    /\ UNCHANGED <<otherVars, progVars, parseVars, envVars, llmCalls, chunkLog, profile, target, failed,
                   registered, cancelled>>

\* await analyzer.analyze(), which may throw
QG_Analyze ==
    /\ QG_Running /\ gpc = "analyze"
    /\ \E ok \in BOOLEAN :
          IF ok THEN /\ gpc' = "call"
                     /\ YieldQuiz(Ev("generating", 40, "none"))
                     /\ UNCHANGED failed
          ELSE QG_Catch("analysis")
    /\ UNCHANGED <<otherVars, progVars, parseVars, envVars, llmCalls, chunkLog, profile, target,
                   registered, cancelled>>

QG_CallLLM ==
    /\ QG_Running /\ gpc = "call"
    /\ \E ok \in BOOLEAN :
          IF ok THEN /\ llmCalls' = llmCalls + 1
                     /\ gpc' = "stream"
                     /\ UNCHANGED <<failed, yieldVars>>
          ELSE /\ QG_Catch("api")
               /\ UNCHANGED llmCalls
    /\ UNCHANGED <<otherVars, progVars, parseVars, envVars, chunkLog, profile, target, registered, cancelled>>

QG_Chunk ==
    /\ QG_Running /\ gpc = "stream"
    /\ Len(chunkLog) < MaxChunks
    /\ \E c \in ChunkKinds :
          /\ chunkLog' = Append(chunkLog, c)
          /\ IF IsText(c)
             THEN YieldQuiz(Ev("generating",
                               quizPercent(textLength(fullResponse(chunkLog'))), "none"))
             ELSE UNCHANGED yieldVars
    /\ UNCHANGED <<otherVars, progVars, parseVars, envVars, gpc, llmCalls, profile, target, failed,
                   registered, cancelled>>

QG_StreamFail ==
    /\ QG_Running /\ gpc = "stream"
    /\ QG_Catch("stream")
    /\ UNCHANGED <<onboarding, otherVars, progVars, parseVars, envVars, llmCalls, chunkLog, profile, target,
                   registered, cancelled>>

QG_StreamEnd ==
    /\ QG_Running /\ gpc = "stream"
    /\ gpc' = "parse"
    /\ YieldQuiz(Ev("generating", 90, "none"))
    /\ UNCHANGED <<otherVars, progVars, parseVars, envVars, llmCalls, chunkLog, profile, target, failed,
                   registered, cancelled>>

QG_Parse ==
    /\ QG_Running /\ gpc = "parse"
    /\ IF quizParses(fullResponse(chunkLog))
       THEN /\ gpc' = "final"
            /\ YieldQuiz(Ev("completed", 100, "new"))
            /\ UNCHANGED failed
       ELSE QG_Catch("parse")
    /\ UNCHANGED <<otherVars, progVars, parseVars, envVars, llmCalls, chunkLog, profile, target,
                   registered, cancelled>>

\* ------------------------------------------------------- cancellation
\* The caller cancels the request: the registered callback runs, and all it
\* does is log.
Cancel ==
    /\ pc = "loop" /\ registered /\ ~cancelled
    /\ cancelled' = TRUE
    /\ UNCHANGED <<onboarding, otherVars, progVars, parseVars, envVars, fileVars, pc, gpc, events, sent, llmCalls, chunkLog,
                   profile, target, failed, registered, savedDoc>>

\* --------------------------------------------------------- SpecGen
\* One recorded answer of the stored quiz.
OldAnswer == [questionId |-> "q1", selectedChoiceId |-> "A", isCorrect |-> TRUE]

InitGen ==
    /\ techs = 1 /\ emitted = <<>> /\ quiz = NoQuiz /\ proto = NoQuiz /\ pstage = "projected"
    /\ hasWorkspace \in BOOLEAN
    /\ hasApiConfig \in BOOLEAN
    /\ hasRequestId \in BOOLEAN
    /\ \/ /\ kind = "curriculum"
          /\ hasProfile \in BOOLEAN
          /\ forceRegenerate \in BOOLEAN
          /\ curriculumFile \in {"none", "corrupt", "old"}
          /\ detected \in {0, 6}
          /\ reqTechs = 0 /\ useProjectContext = FALSE
          /\ quizFile = "none" /\ answersFile = <<>>
       \/ /\ kind = "quiz"
          /\ reqTechs \in {0, 1}
          /\ detected \in {0, 6}
          /\ useProjectContext \in BOOLEAN
          /\ \/ quizFile = "none" /\ answersFile = <<>>
             \/ quizFile = "old" /\ answersFile \in {<<>>, <<OldAnswer>>}
          /\ hasProfile = FALSE /\ forceRegenerate = FALSE
          /\ curriculumFile = "none"
    /\ pc = "init" /\ gpc = "idle"
    /\ events = <<>> /\ sent = <<>>
    /\ llmCalls = 0 /\ chunkLog = <<>>
    /\ profile = "unread" /\ target = 0 /\ failed = "none"
    /\ registered = FALSE /\ cancelled = FALSE /\ savedDoc = "none"
    /\ NoProgress
    /\ onboarding = [dir       |-> curriculumFile # "none" \/ quizFile # "none" \/ hasProfile,
                     gitignore |-> hasProfile,
                     readme    |-> hasProfile,
                     profile   |-> hasProfile]
    /\ NoOther

NextGen ==
    \/ HC_Start \/ CG_Start \/ CG_Analyze \/ CG_Detect \/ CG_LoadProfile \/ CG_CallLLM
    \/ CG_Chunk \/ CG_StreamFail \/ CG_StreamEnd \/ CG_Parse
    \/ HQ_Start \/ QG_Start \/ QG_Detect \/ QG_Context \/ QG_Analyze \/ QG_CallLLM
    \/ QG_Chunk \/ QG_StreamFail \/ QG_StreamEnd \/ QG_Parse
    \/ Cancel

SpecGen == InitGen /\ [][NextGen]_vars

\* ======================================================================
\* Task progress and learning statistics:
\*   - CurriculumManager.updateTaskStatus and LearningStatisticsManager driven
\*     by the updateTaskProgress, getLearningStatistics and exportCurriculum
\*     handlers (specification SpecProgress; SpecSkew adds a wall clock that
\*     is set back);
\*   - LearningStatisticsManager.calculateStreak (specification SpecStreak).

\* ------------------------------------------------------------------ time
\* The clock is read in ticks of 30 000 ms, so that half minutes exist.
DayTicks == 86400000 \div 30000

\* The times of day at which the model lets the clock be read, in ticks.
Offsets == {1, 35}

\* The instants at which the model lets the clock be read: those times on
\* day 0, and midnight of each later day.
Instants == Offsets \cup {d * DayTicks : d \in 1..MaxDay}

\* new Date().toISOString().split("T")[0]: the UTC day an instant falls on.
\* Days are numbered; "YYYY-MM-DD" strings sort as their day numbers do.
dateOf(t) == (t * 30000) \div 86400000

\* A mutated rounding: the fraction of a minute is dropped.
minutesSpent_truncated(startTime, endTime) == ((endTime - startTime) * 30000) \div 60000

\* Math.round((endTime - startTime) / 60000): halves round up.
minutesSpent(startTime, endTime) == ((endTime - startTime) * 30000 + 30000) \div 60000

Range(s) == {s[i] : i \in 1..Len(s)}

Least(S) == CHOOSE x \in S : \A y \in S : x <= y

\* ------------------------------------------------------------ curriculum
TaskStatuses == {"not_started", "in_progress", "completed", "skipped"}

ProtoStatuses == {"TASK_STATUS_NOT_STARTED", "TASK_STATUS_IN_PROGRESS",
                  "TASK_STATUS_COMPLETED", "TASK_STATUS_SKIPPED", "UNRECOGNIZED"}

\* statusMap[request.status] || "not_started"
statusMap(s) ==
    CASE s = "TASK_STATUS_NOT_STARTED" -> "not_started"
      [] s = "TASK_STATUS_IN_PROGRESS" -> "in_progress"
      [] s = "TASK_STATUS_COMPLETED"   -> "completed"
      [] s = "TASK_STATUS_SKIPPED"     -> "skipped"
      [] OTHER                         -> "not_started"

\* The estimatedTime text the LLM emits for the tasks of chapter c.
EmittedEstimate(c) == IF c = 1 THEN "45min" ELSE "about an hour"

\* task.estimatedTime.match(/(\d+)/): the first run of digits, Absent when none.
firstDigits(text) == IF text = "45min" THEN 45 ELSE IF text = "30min" THEN 30 ELSE Absent

\* The id the LLM gave the k-th task of chapter c in its own response; no
\* stored task has it, every chapter and task getting a uuidv4().
EmittedTaskId(c, k) == <<0, c, k>>

\* t.prerequisites as the LLM emits it: the task before in the chapter, or the
\* first task of the chapter before, under the ids of its own response.
EmittedPrerequisites(c, k) ==
    IF k > 1 THEN <<EmittedTaskId(c, k - 1)>>
    ELSE IF c > 1 THEN <<EmittedTaskId(c - 1, 1)>>
    ELSE <<>>

\* A mutated id: a task keeps the id the LLM emitted, its number in the chapter.
TaskId_emitted(n, c, k) == <<n, k>>

\* uuidv4(): the n-th curriculum's own id, its chapters' and its tasks' ids.
CurriculumId(n) == <<n>>
ChapterId(n, c) == <<n, c>>
TaskId(n, c, k) == <<n, c, k>>

\* CurriculumGenerator.parseResponse: the n-th curriculum, generated at t.
newCurriculum(n, shape, t) ==
    [exists    |-> TRUE,
     id        |-> CurriculumId(n),
     chapters  |-> [c \in 1..Len(shape) |->
                      [id    |-> ChapterId(n, c),
                       order |-> c - 1,
                       tasks |-> [k \in 1..shape[c] |->
                                    [id            |-> TaskId(n, c, k),
                                     status        |-> "not_started",
                                     estimatedTime |-> EmittedEstimate(c),
                                     prerequisites |-> EmittedPrerequisites(c, k)]]]],
     createdAt |-> t,
     updatedAt |-> t]

\* A mutated find: the first task is taken when no id matches.
findTask_first(tasks, taskId) ==
    LET hits == {k \in 1..Len(tasks) : tasks[k].id = taskId}
    IN  IF hits = {} THEN (IF Len(tasks) > 0 THEN 1 ELSE 0) ELSE Least(hits)

\* chapter.tasks.find((t) => t.id === taskId): the first index, 0 when none.
findTask(tasks, taskId) ==
    LET hits == {k \in 1..Len(tasks) : tasks[k].id = taskId}
    IN  IF hits = {} THEN 0 ELSE Least(hits)

\* The chapters holding a task with that id.
chaptersWith(doc, taskId) ==
    {c \in 1..Len(doc.chapters) : findTask(doc.chapters[c].tasks, taskId) # 0}

\* A mutated lookup: a completed task is taken to be still in progress.
oldStatusOf_stillStarted(file, taskId) ==
    IF file.exists /\ chaptersWith(file, taskId) # {}
    THEN LET c == Least(chaptersWith(file, taskId))
             status == file.chapters[c].tasks[findTask(file.chapters[c].tasks, taskId)].status
         IN  IF status = "completed" THEN "in_progress" ELSE status
    ELSE "not_started"

\* updateTaskProgress: the status the task has before the update.
oldStatusOf(file, taskId) ==
    IF file.exists /\ chaptersWith(file, taskId) # {}
    THEN LET c == Least(chaptersWith(file, taskId))
         IN  file.chapters[c].tasks[findTask(file.chapters[c].tasks, taskId)].status
    ELSE "not_started"

\* The ids of the completed tasks of the document.
completedIds(file) ==
    UNION {{file.chapters[c].tasks[k].id :
               k \in {i \in 1..Len(file.chapters[c].tasks) :
                         file.chapters[c].tasks[i].status = "completed"}} :
           c \in 1..Len(file.chapters)}

\* A mutated update: a task is completed only once its prerequisites are.
updateTaskStatus_gated(file, taskId, status, t) ==
    IF ~file.exists \/ chaptersWith(file, taskId) = {}
    THEN [found |-> FALSE, curriculum |-> file]
    ELSE LET c == Least(chaptersWith(file, taskId))
             k == findTask(file.chapters[c].tasks, taskId)
             needed == file.chapters[c].tasks[k].prerequisites
         IN  IF status = "completed"
                /\ \E i \in 1..Len(needed) : needed[i] \notin completedIds(file)
             THEN [found |-> FALSE, curriculum |-> file]
             ELSE [found |-> TRUE,
                   curriculum |-> [file EXCEPT !.chapters[c].tasks[k].status = status,
                                               !.updatedAt = t]]

\* A mutated update: every task of the document gets the status.
updateTaskStatus_anyChapter(file, taskId, status, t) ==
    IF ~file.exists \/ chaptersWith(file, taskId) = {}
    THEN [found |-> FALSE, curriculum |-> file]
    ELSE [found |-> TRUE,
          curriculum |-> [file EXCEPT
              !.chapters = [c \in 1..Len(file.chapters) |->
                  [file.chapters[c] EXCEPT !.tasks = [k \in 1..Len(file.chapters[c].tasks) |->
                      [file.chapters[c].tasks[k] EXCEPT !.status = status]]]],
              !.updatedAt = t]]

\* CurriculumManager.updateTaskStatus up to its saveCurriculum call: found is
\* FALSE when it returns null, and curriculum is then the document as loaded.
updateTaskStatus(file, taskId, status, t) ==
    IF ~file.exists \/ chaptersWith(file, taskId) = {}
    THEN [found |-> FALSE, curriculum |-> file]
    ELSE LET c == Least(chaptersWith(file, taskId))
             k == findTask(file.chapters[c].tasks, taskId)
         IN  [found |-> TRUE,
              curriculum |-> [file EXCEPT !.chapters[c].tasks[k].status = status,
                                          !.updatedAt = t]]

\* ------------------------------------------------------------ statistics
RECURSIVE flatTasks(_)
\* curriculum.chapters.flatMap((ch) => ch.tasks)
flatTasks(chapters) ==
    IF chapters = <<>> THEN <<>> ELSE Head(chapters).tasks \o flatTasks(Tail(chapters))

\* A mutated count: tasks in progress are counted as completed too.
countStatus_started(allTasks, status) ==
    Cardinality({i \in 1..Len(allTasks) :
        allTasks[i].status = status \/ (status = "completed" /\ allTasks[i].status = "in_progress")})

\* allTasks.filter((t) => t.status === status).length
countStatus(allTasks, status) ==
    Cardinality({i \in 1..Len(allTasks) : allTasks[i].status = status})

RECURSIVE sumEstimates(_)
\* allTasks.reduce((sum, task) => sum + (match ? parseInt(match[1], 10) : 30), 0)
sumEstimates(allTasks) ==
    IF allTasks = <<>> THEN 0
    ELSE LET match == firstDigits(Head(allTasks).estimatedTime)
         IN  (IF match # Absent THEN match ELSE 30) + sumEstimates(Tail(allTasks))

\* LearningStatisticsManager.calculateFromCurriculum.  completionPercentage is
\* the quotient num / den, kept exact.
calculateFromCurriculum(doc) ==
    LET allTasks == flatTasks(doc.chapters)
        completedTasks == countStatus(allTasks, "completed")
        totalTasks == Len(allTasks)
    IN  [exists                 |-> TRUE,
         curriculumId           |-> doc.id,
         totalTasks             |-> totalTasks,
         completedTasks         |-> completedTasks,
         inProgressTasks        |-> countStatus(allTasks, "in_progress"),
         skippedTasks           |-> countStatus(allTasks, "skipped"),
         notStartedTasks        |-> countStatus(allTasks, "not_started"),
         estimatedTotalMinutes  |-> sumEstimates(allTasks),
         actualTimeSpentMinutes |-> 0,
         taskStats              |-> <<>>,
         lastActivityTime       |-> doc.updatedAt,
         completionPercentage   |-> IF totalTasks > 0
                                    THEN [num |-> completedTasks * 100, den |-> totalTasks]
                                    ELSE [num |-> 0, den |-> 1],
         streakDays             |-> 0,
         learningDates          |-> <<>>]

RECURSIVE streakScan(_, _, _)
\* The for loop of calculateStreak, entered at index i with the streak so far.
streakScan(sortedDates, i, run) ==
    IF i > Len(sortedDates) - 1 THEN run
    ELSE IF sortedDates[i] - sortedDates[i + 1] = 1
         THEN streakScan(sortedDates, i + 1, run + 1)
         ELSE run

\* A mutated streak: the latest date is not compared with today.
calculateStreak_noBreak(dateList, t) ==
    IF Len(dateList) = 0 THEN 0
    ELSE streakScan(SortSeq(dateList, LAMBDA a, b : a > b), 1, 1)

\* LearningStatisticsManager.calculateStreak, with the clock reading t.
calculateStreak(dateList, t) ==
    IF Len(dateList) = 0 THEN 0
    ELSE LET sortedDates == SortSeq(dateList, LAMBDA a, b : a > b)
             today == dateOf(t)
             yesterday == dateOf(t - DayTicks)
         IN  IF sortedDates[1] # today /\ sortedDates[1] # yesterday
             THEN 0
             ELSE streakScan(sortedDates, 1, 1)

\* The index of the first taskStat with that taskId, 0 when none.
findTaskStat(taskStats, taskId) ==
    LET hits == {i \in 1..Len(taskStats) : taskStats[i].taskId = taskId}
    IN  IF hits = {} THEN 0 ELSE Least(hits)

\* A mutated merge: the total of the stored record is not taken over.
mergeExisting_forgetTotal(freshStats, file) ==
    IF file.exists
    THEN [freshStats EXCEPT !.taskStats = file.taskStats,
                            !.learningDates = file.learningDates]
    ELSE freshStats

\* if (exists && statistics) { take over taskStats, actualTimeSpentMinutes, learningDates }
mergeExisting(freshStats, file) ==
    IF file.exists
    THEN [freshStats EXCEPT !.taskStats = file.taskStats,
                            !.actualTimeSpentMinutes = file.actualTimeSpentMinutes,
                            !.learningDates = file.learningDates]
    ELSE freshStats

\* A mutated timing rule: every move to completed counts as completing.
isCompleting_anyOld(oldStatus, newStatus) ==
    newStatus = "completed"

\* else if (newStatus === "completed" && oldStatus === "in_progress")
isCompleting(oldStatus, newStatus) ==
    ~(newStatus = "in_progress" /\ oldStatus # "in_progress")
    /\ newStatus = "completed" /\ oldStatus = "in_progress"

\* if (!learningDates.includes(today)) { learningDates.push(today); learningDates.sort() }
recordToday(learningDates, today) ==
    IF today \in Range(learningDates) THEN learningDates
    ELSE SortSeq(Append(learningDates, today), LAMBDA a, b : a < b)

\* LearningStatisticsManager.updateTaskStatistics up to its saveStatistics
\* call, with the clock reading t: the record it saves and returns.
updateTaskStatistics(file, taskId, oldStatus, newStatus, doc, t) ==
    LET freshStats == mergeExisting(calculateFromCurriculum(doc), file)
        found      == findTaskStat(freshStats.taskStats, taskId)
        taskStats  == IF found = 0
                      THEN Append(freshStats.taskStats,
                                  [taskId |-> taskId, startedAt |-> Absent,
                                   completedAt |-> Absent, timeSpentMinutes |-> 0])
                      ELSE freshStats.taskStats
        i          == IF found = 0 THEN Len(taskStats) ELSE found
        taskStat   == taskStats[i]
        starting   == newStatus = "in_progress" /\ oldStatus # "in_progress"
        completing == isCompleting(oldStatus, newStatus)
        spent      == IF completing /\ taskStat.startedAt # Absent
                      THEN minutesSpent(taskStat.startedAt, t)
                      ELSE 0
        updated    == IF starting THEN [taskStat EXCEPT !.startedAt = t]
                      ELSE IF completing
                           THEN [taskStat EXCEPT !.completedAt = t,
                                                 !.timeSpentMinutes = @ + spent]
                           ELSE taskStat
        learningDates == recordToday(freshStats.learningDates, dateOf(t))
    IN  [freshStats EXCEPT !.taskStats = [taskStats EXCEPT ![i] = updated],
                           !.actualTimeSpentMinutes = @ + spent,
                           !.learningDates = learningDates,
                           !.streakDays = calculateStreak(learningDates, t),
                           !.lastActivityTime = t]

\* A mutated getOrCreateStatistics: the record is always calculated afresh.
getOrCreateStatistics_alwaysFresh(file, doc, t) ==
    [saves |-> TRUE, statistics |-> calculateFromCurriculum(doc)]

\* LearningStatisticsManager.getOrCreateStatistics with the clock reading t:
\* the record it returns, and whether it saves that record first.
getOrCreateStatistics(file, doc, t) ==
    IF file.exists /\ file.curriculumId = doc.id
    THEN [saves |-> FALSE,
          statistics |-> [calculateFromCurriculum(doc) EXCEPT
                             !.taskStats = file.taskStats,
                             !.actualTimeSpentMinutes = file.actualTimeSpentMinutes,
                             !.learningDates = file.learningDates,
                             !.streakDays = calculateStreak(file.learningDates, t)]]
    ELSE [saves |-> TRUE, statistics |-> calculateFromCurriculum(doc)]

\* recordActivity after its getOrCreateStatistics call returned stats: whether
\* it saves, and the record it then saves.
recordActivity(stats, t) ==
    LET today == dateOf(t)
        learningDates == Append(stats.learningDates, today)
    IN  IF today \notin Range(stats.learningDates)
        THEN [saves |-> TRUE,
              statistics |-> [stats EXCEPT !.learningDates = learningDates,
                                           !.streakDays = calculateStreak(learningDates, t),
                                           !.lastActivityTime = t]]
        ELSE [saves |-> FALSE, statistics |-> stats]

\* -------------------------------------------------------------- handlers
\* Whether a write goes through: it throws otherwise.
WriteOutcomes == IF writesFail THEN BOOLEAN ELSE {TRUE}

\* request.taskId left empty.
NoTaskId == <<>>

\* A task id no stored curriculum holds (a task of a curriculum since replaced).
UnknownTaskId == TaskId(0, 1, 1)

\* The ids of the tasks of a stored curriculum.
TaskIdsOf(doc) ==
    IF doc.exists
    THEN UNION {{doc.chapters[c].tasks[k].id : k \in 1..Len(doc.chapters[c].tasks)} :
                    c \in 1..Len(doc.chapters)}
    ELSE {}

\* The task ids a request may carry: those of the stored curriculum, one
\* that is not in it, and the empty id.
RequestTaskIds == TaskIdsOf(curriculum) \cup {UnknownTaskId, NoTaskId}

\* What the progress handlers never change.
restVars == <<parseVars, envVars, fileVars, runVars, writesFail, outline, dates, streak,
              otherVars>>

\* updateTaskProgress on the stored documents doc and file, with the clock
\* reading t: the documents it leaves and what it answers.  curriculumSaved /
\* statisticsSaved: whether the write of saveCurriculum / saveStatistics goes
\* through.
updateTaskProgress(doc, file, workspace, taskId, status, t, curriculumSaved, statisticsSaved) ==
    LET oldStatus == oldStatusOf(doc, taskId)
        newStatus == statusMap(status)
        updated   == updateTaskStatus(doc, taskId, newStatus, t)
        refused(log) == [curriculum |-> doc, statistics |-> file,
                         response |-> Response("updateTaskProgress", FALSE, log)]
    IN  IF ~workspace THEN refused("No workspace path available")
        ELSE IF taskId = NoTaskId THEN refused("No task ID provided")
        ELSE IF ~updated.found THEN refused("")
        ELSE IF ~curriculumSaved THEN refused("Error updating task progress")
        ELSE IF ~statisticsSaved
             THEN [curriculum |-> updated.curriculum, statistics |-> file,
                   response |-> Response("updateTaskProgress", FALSE,
                                         "Error updating task progress")]
             ELSE [curriculum |-> updated.curriculum,
                   statistics |-> updateTaskStatistics(file, taskId, oldStatus, newStatus,
                                                       updated.curriculum, t),
                   response |-> Response("updateTaskProgress", TRUE, "")]

UpdateTaskProgress ==
    /\ \E taskId \in RequestTaskIds, status \in ProtoStatuses,
          curriculumSaved \in WriteOutcomes, statisticsSaved \in WriteOutcomes :
          LET done == updateTaskProgress(curriculum, statistics, hasWorkspace, taskId, status,
                                         now, curriculumSaved, statisticsSaved)
          IN  /\ curriculum' = done.curriculum
              /\ statistics' = done.statistics
              /\ response' = done.response
    /\ UNCHANGED <<restVars, onboarding, now, issued, setBacks>>

\* getLearningStatistics, called with a workspace open.  saved: whether the
\* write of saveStatistics goes through (the call is rejected otherwise).
GetLearningStatistics ==
    /\ hasWorkspace
    /\ \E saved \in WriteOutcomes :
          LET got == getOrCreateStatistics(statistics, curriculum, now)
          IN  statistics' = IF curriculum.exists /\ got.saves /\ saved
                            THEN got.statistics
                            ELSE statistics
    /\ UNCHANGED <<restVars, onboarding, curriculum, now, response, issued, setBacks>>

\* exportCurriculum, called with a workspace open.
ExportCurriculum ==
    /\ hasWorkspace
    /\ \E includeStatistics \in BOOLEAN, saved \in WriteOutcomes :
          LET got == getOrCreateStatistics(statistics, curriculum, now)
          IN  statistics' = IF curriculum.exists /\ includeStatistics /\ got.saves /\ saved
                            THEN got.statistics
                            ELSE statistics
    /\ UNCHANGED <<restVars, onboarding, curriculum, now, response, issued, setBacks>>

\* LearningStatisticsManager.recordActivity(curriculum) on the stored
\* curriculum.  created / saved: whether the write of getOrCreateStatistics /
\* of recordActivity itself goes through.
RecordActivity ==
    /\ hasWorkspace
    /\ curriculum.exists
    /\ \E created \in WriteOutcomes, saved \in WriteOutcomes :
          LET got      == getOrCreateStatistics(statistics, curriculum, now)
              onDisk   == IF got.saves THEN got.statistics ELSE statistics
              recorded == recordActivity(got.statistics, now)
          IN  statistics' = IF got.saves /\ ~created THEN statistics
                            ELSE IF recorded.saves /\ saved THEN recorded.statistics
                            ELSE onDisk
    /\ UNCHANGED <<restVars, onboarding, curriculum, now, response, issued, setBacks>>

\* generateCurriculum seen from the stored documents.  force is
\* request.forceRegenerate: a stored curriculum is served unless force, which
\* deletes it first; the generation then either completes and saves the next
\* curriculum, or fails and saves none.  learning-stats.json is not touched.
generateCurriculum(force) ==
    /\ hasWorkspace
    /\ \E completes \in BOOLEAN :
          IF curriculum.exists /\ ~force
          THEN UNCHANGED <<curriculum, issued>>
          ELSE /\ issued < MaxCurricula
               /\ IF completes
                  THEN /\ curriculum' = newCurriculum(issued + 1, outline, now)
                       /\ issued' = issued + 1
                  ELSE /\ curriculum' = NoCurriculum
                       /\ UNCHANGED issued
    /\ onboarding' = IF curriculum'.exists THEN mkdir(onboarding) ELSE onboarding
    /\ UNCHANGED <<restVars, statistics, now, response, setBacks>>

\* generateCurriculum without forceRegenerate.
GenerateCurriculum == generateCurriculum(FALSE)

\* generateCurriculum with forceRegenerate.
RegenerateCurriculum == generateCurriculum(TRUE)

\* Time passes within the day: the next reading of the clock is later.
AdvanceToday ==
    /\ \E t \in Instants : t > now /\ dateOf(t) = dateOf(now) /\ now' = t
    /\ UNCHANGED <<restVars, onboarding, curriculum, statistics, response, issued, setBacks>>

\* Time passes: the next reading of the clock is later.
Advance ==
    /\ \E t \in Instants : t > now /\ now' = t
    /\ UNCHANGED <<restVars, onboarding, curriculum, statistics, response, issued, setBacks>>

\* The wall clock is set back: the next reading is earlier.
SetBack ==
    /\ setBacks < MaxSetBacks
    /\ \E t \in Instants : t < now /\ now' = t
    /\ setBacks' = setBacks + 1
    /\ UNCHANGED <<restVars, onboarding, curriculum, statistics, response, issued>>

IdleGeneration ==
    /\ techs = 1 /\ emitted = <<>> /\ quiz = NoQuiz /\ proto = NoQuiz /\ pstage = "projected"
    /\ NoRequest

\* A workspace with no curriculum and no statistics yet, in which every write
\* goes through; shape is the outline the LLM will emit.
InitWorkspace(shape) ==
    /\ IdleGeneration
    /\ curriculum = NoCurriculum /\ statistics = NoStatistics
    /\ now = Least(Instants) /\ response = NoResponse /\ issued = 0 /\ setBacks = 0
    /\ writesFail = FALSE /\ outline = shape
    /\ dates = <<>> /\ streak = Absent
    /\ onboarding = NoOnboarding
    /\ NoOther

\* SpecProgress: one working day on a curriculum of two chapters of one task.
InitProgress == InitWorkspace(<<1, 1>>)

NextProgress ==
    \/ UpdateTaskProgress \/ GetLearningStatistics \/ ExportCurriculum
    \/ GenerateCurriculum \/ AdvanceToday

SpecProgress == InitProgress /\ [][NextProgress]_vars

\* SpecHistory: several days on a curriculum of one task, with recordActivity.
InitHistory == InitWorkspace(<<1>>)

NextHistory ==
    \/ UpdateTaskProgress \/ GetLearningStatistics \/ ExportCurriculum \/ RecordActivity
    \/ GenerateCurriculum \/ Advance

SpecHistory == InitHistory /\ [][NextHistory]_vars

\* SpecRegen: the same, and the curriculum may be regenerated.
NextRegen == NextHistory \/ RegenerateCurriculum

SpecRegen == InitHistory /\ [][NextRegen]_vars

\* SpecSkew: SpecHistory on a machine whose wall clock may be set back.
NextSkew == NextHistory \/ SetBack

SpecSkew == InitHistory /\ [][NextSkew]_vars

\* ------------------------------------------------------------ SpecStreak
RECURSIVE Ascending(_)
\* The days of S as a list in ascending order.
Ascending(S) == IF S = {} THEN <<>> ELSE <<Least(S)>> \o Ascending(S \ {Least(S)})

Reverse(s) == [i \in 1..Len(s) |-> s[Len(s) + 1 - i]]

\* The date lists handed to calculateStreak: no date twice, in either order.
DateLists == UNION {{Ascending(S), Reverse(Ascending(S))} : S \in SUBSET (0..MaxDate)}

InitStreak ==
    /\ IdleGeneration
    /\ curriculum = NoCurriculum /\ statistics = NoStatistics
    /\ response = NoResponse /\ issued = 0 /\ setBacks = 0
    /\ writesFail = FALSE /\ outline = <<>>
    /\ dates \in DateLists
    /\ now \in {d * DayTicks + o : d \in 0..MaxDate, o \in Offsets}
    /\ streak = Absent
    /\ onboarding = NoOnboarding
    /\ NoOther

\* streakDays = this.calculateStreak(learningDates)
ApplyCalculateStreak ==
    /\ streak = Absent
    /\ streak' = calculateStreak(dates, now)
    /\ UNCHANGED <<parseVars, envVars, fileVars, runVars, curriculum, statistics, now, response,
                   issued, setBacks, writesFail, outline, dates, onboarding, otherVars>>

NextStreak == ApplyCalculateStreak

SpecStreak == InitStreak /\ [][NextStreak]_vars

\* ------------------------------------------------- claims on SpecParse
Min(a, b) == IF a < b THEN a ELSE b

Parsed == pstage \in {"parsed", "projected"}

\* C1: every question of a quiz returned by parseResponse has exactly one
\* choice with isCorrect = true, whatever the LLM emitted for it (no correct
\* choice, several, or a missing or empty choice list).
C1_ExactlyOneCorrect ==
    Parsed => \A i \in 1..Len(quiz.questions) :
                 Cardinality({j \in 1..Len(quiz.questions[i].choices) :
                                 quiz.questions[i].choices[j].isCorrect}) = 1

\* The emitted question e reappears as the parsed question q.
FromEmitted(q, e, i) ==
    /\ q.questionNumber = i
    /\ q.explanation = OrElse(e.explanation, "")
    /\ e.technology # Undef => q.technology = e.technology
    /\ Len(q.choices) = Len(e.choices)
    /\ \A j \in 1..Len(e.choices) : q.choices[j].id = OrElse(e.choices[j].id, "")

IsPlaceholder(q, i) ==
    /\ q.questionNumber = i
    /\ q.explanation = "placeholder"
    /\ [j \in 1..Len(q.choices) |-> q.choices[j].id] = <<"A", "B", "C", "D">>

\* C2: a quiz returned by parseResponse has exactly 5 questions: the first
\* min(k, 5) are the k emitted questions in order, and placeholders follow
\* when k < 5.
C2_FiveQuestions ==
    Parsed =>
        /\ Len(quiz.questions) = 5
        /\ \A i \in 1..5 :
              IF i <= Len(emitted) THEN FromEmitted(quiz.questions[i], emitted[i], i)
              ELSE IsPlaceholder(quiz.questions[i], i)

C2_Witness == pstage = "parsed" /\ Len(emitted) > 5

Flagged(e, j) == e[j].isCorrect = "true"

NumFlagged(e) == Cardinality({j \in 1..Len(e) : Flagged(e, j)})

\* C3: the repair keeps the number, order, ids and texts of the choices; with
\* no emitted choice flagged correct the first one alone becomes correct, with
\* several flagged only the first of them stays correct, with exactly one the
\* flags are as emitted.
C3_RepairFirstCorrect ==
    Parsed => \A i \in 1..Min(Len(emitted), 5) :
        LET e == emitted[i].choices
            r == quiz.questions[i].choices
        IN  /\ Len(r) = Len(e)
            /\ \A j \in 1..Len(e) :
                  /\ e[j].id # Undef => r[j].id = e[j].id
                  /\ e[j].text # Undef => r[j].text = e[j].text
                  /\ r[j].isCorrect =
                        IF NumFlagged(e) = 0 THEN j = 1
                        ELSE Flagged(e, j) /\ \A k \in 1..(j - 1) : ~Flagged(e, k)

C3_Witness ==
    /\ pstage = "parsed"
    /\ Len(emitted) = 1
    /\ NumFlagged(emitted[1].choices) > 1
    /\ ~Flagged(emitted[1].choices, 1)

ClearFlags(data) ==
    [questions |->
        [i \in 1..Len(data.questions) |->
            [data.questions[i] EXCEPT !.choices =
                [j \in 1..Len(data.questions[i].choices) |->
                    [id |-> data.questions[i].choices[j].id,
                     text |-> data.questions[i].choices[j].text,
                     isCorrect |-> FALSE]]]],
     targetTechnologies |-> data.targetTechnologies]

\* C10: the quiz message built for the client has isCorrect = false on every
\* choice and is the stored quiz with its flags erased, so quizzes that differ
\* only in their flags give the same message.
C10_ProtoMasksCorrect ==
    pstage = "projected" =>
        /\ \A i \in 1..Len(proto.questions) :
              \A j \in 1..Len(proto.questions[i].choices) :
                  ~proto.questions[i].choices[j].isCorrect
        /\ proto = ClearFlags(quiz)

C10_Witness ==
    /\ pstage = "projected"
    /\ \E i \in 1..Len(quiz.questions) :
          \E j \in 1..Len(quiz.questions[i].choices) :
              j > 1 /\ quiz.questions[i].choices[j].isCorrect

\* --------------------------------------------------- claims on SpecGen
LastOf(s) == s[Len(s)]

Phases(s) == {s[i].phase : i \in 1..Len(s)}

\* C4: once a step of generate() has failed, the generator's last event is
\* the one error event, no completed event exists, the generator has ended
\* (the failure did not escape: it became that event), and createMessage was
\* called at most once.
C4_FailureIsTerminalError ==
    /\ llmCalls <= 1
    /\ failed # "none" =>
          /\ gpc = "final"
          /\ events # <<>>
          /\ LastOf(events) = Ev("error", 0, "none")
          /\ Cardinality({i \in 1..Len(events) : events[i].phase = "error"}) = 1
          /\ "completed" \notin Phases(events)

C4_Witness ==
    /\ failed = "stream" /\ llmCalls = 1 /\ Len(chunkLog) > 0
    /\ LastOf(events).phase = "error"

\* The events the text chunks of a stream give, from the stream alone.
RECURSIVE ChunkEvents(_, _)
ChunkEvents(tokens, k) ==
    IF k = 0 THEN <<>>
    ELSE Append(ChunkEvents(tokens, k - 1),
                Ev("generating",
                   MinOf(90, 50 + (textLength(SubSeq(tokens, 1, k)) \div 50)), "none"))

NonDecreasing(s) == \A i \in 1..(Len(s) - 1) : s[i].pct <= s[i + 1].pct

\* C5: on a curriculum run in which no step fails the events are analyzing
\* 10, 30, 40, generating 50, one generating event per text chunk with
\* min(90, 50 + floor(length / 50)), generating 95, completed 100; the
\* percent never decreases, and the completed event is the last one and the
\* only one that carries the curriculum.
C5_CurriculumEventOrder ==
    (kind = "curriculum" /\ failed = "none") =>
        /\ NonDecreasing(events)
        /\ \A i \in 1..Len(events) :
              events[i].doc # "none" => (events[i].phase = "completed" /\ i = Len(events))
        /\ gpc = "final" =>
              events = << Ev("analyzing", 10, "none"), Ev("analyzing", 30, "none"),
                          Ev("analyzing", 40, "none"), Ev("generating", 50, "none") >>
                       \o ChunkEvents(fullResponse(chunkLog), Len(fullResponse(chunkLog)))
                       \o << Ev("generating", 95, "none"), Ev("completed", 100, "new") >>

C5_Witness ==
    /\ kind = "curriculum" /\ failed = "none" /\ gpc = "final"
    /\ Len(fullResponse(chunkLog)) = 3
    /\ "usage" \notin {chunkLog[i] : i \in 1..Len(chunkLog)}
    /\ \E i \in 1..Len(events) : events[i].pct = 90

\* C6: QuizGenerator.generate() with an empty technology list, when
\* detection finds none either, never calls the LLM, yields no generating or
\* completed event, and ends with the error event.
C6_NoTechnologyFailsFast ==
    (kind = "quiz" /\ reqTechs = 0 /\ detected = 0) =>
        /\ llmCalls = 0
        /\ Phases(events) \cap {"generating", "completed"} = {}
        /\ gpc \in {"idle", "start", "detect", "final"}
        /\ gpc = "final" => LastOf(events).phase = "error"

C6_Witness ==
    /\ kind = "quiz" /\ reqTechs = 0 /\ detected = 0
    /\ gpc = "final" /\ failed = "notech"
    /\ events = << Ev("detecting", 10, "none"), Ev("error", 0, "none") >>

OnlyError == sent = <<ErrorMsg>> /\ events = <<>> /\ llmCalls = 0

\* C7 as stated: a curriculum request made without a workspace path, without
\* a saved profile or without an API configuration ends in a terminal error
\* message, with no LLM call and no completed message.
C7_Original ==
    (kind = "curriculum" /\ pc = "done" /\ (~hasWorkspace \/ ~hasProfile \/ ~hasApiConfig)) =>
        /\ LastOf(sent).phase = "error"
        /\ "completed" \notin Phases(sent)
        /\ llmCalls = 0

\* C7 amended: a curriculum request made without a workspace path, or
\* without an API configuration when it is not answered from a persisted
\* curriculum, ends at once in one terminal error message with no LLM call;
\* a missing profile is no error: loadProfile gives null and the generator
\* goes on to announce generation.
C7_MissingInputIsError ==
    /\ (kind = "curriculum" /\ pc = "done" /\ ~hasWorkspace) => OnlyError
    /\ (kind = "curriculum" /\ pc = "done" /\ hasWorkspace /\ ~hasApiConfig) =>
          IF ~forceRegenerate /\ curriculumFile = "old"
          THEN sent = <<Msg("completed", 100, "old", TRUE)>> /\ llmCalls = 0
          ELSE OnlyError
    /\ (kind = "curriculum" /\ profile = "null") =>
          /\ ~hasProfile
          /\ gpc = "call" => (failed = "none" /\ LastOf(events) = Ev("generating", 50, "none"))

C7_Witness ==
    /\ kind = "curriculum" /\ pc = "done"
    /\ hasWorkspace /\ ~hasApiConfig /\ forceRegenerate
    /\ sent = <<ErrorMsg>>

\* The reply has no ```json block closed by a later fence, or the text of the
\* first such block is not one JSON value.
Unparseable(tokens) ==
    \/ ~\E i, j \in 1..Len(tokens) : i < j /\ tokens[i] = "fj" /\ tokens[j] \in {"f", "fj"}
    \/ \E i, j \in 1..Len(tokens) :
          /\ i < j /\ tokens[i] = "fj" /\ tokens[j] \in {"f", "fj"}
          /\ \A k \in 1..(i - 1) : tokens[k] # "fj"
          /\ \A k \in (i + 1)..(j - 1) : tokens[k] \notin {"f", "fj"}
          /\ ~(j = i + 2 /\ tokens[i + 1] \in {"obj", "noq"})

ParseReached == gpc = "final" /\ failed \in {"none", "parse"}

\* C8: when the reply has no fenced json block or the first block is not
\* valid JSON, the run ends in the error event and saves nothing; a run
\* saves a document only on a completed event that carries it.
C8_ParseFailureSavesNothing ==
    /\ (ParseReached /\ Unparseable(fullResponse(chunkLog))) =>
          /\ failed = "parse"
          /\ LastOf(events).phase = "error"
          /\ savedDoc = "none"
          /\ curriculumFile # "new" /\ quizFile # "new"
    /\ savedDoc # "none" =>
          /\ LastOf(events) = Ev("completed", 100, savedDoc)
          /\ savedDoc = IF kind = "curriculum" THEN curriculumFile ELSE quizFile

C8_Witness ==
    /\ ParseReached
    /\ fullResponse(chunkLog) = <<"fj", "bad", "f">>
    /\ LastOf(events).phase = "error"

\* C9: after the caller has cancelled the request, the run writes no
\* persisted state: the curriculum, the quiz and the answers stay as they are.
C9_NoWriteAfterCancel ==
    [][cancelled => (curriculumFile' = curriculumFile /\ quizFile' = quizFile
                     /\ answersFile' = answersFile)]_vars

\* ------------------------------------------ claims on task progress
\* The (chapter, task) positions of a stored curriculum.
Positions(doc) ==
    UNION {{<<c, k>> : k \in 1..Len(doc.chapters[c].tasks)} : c \in 1..Len(doc.chapters)}

TaskAt(doc, p) == doc.chapters[p[1]].tasks[p[2]]

\* The status the stored curriculum gives the task with that id.
StatusIn(doc, taskId) ==
    TaskAt(doc, CHOOSE p \in Positions(doc) : TaskAt(doc, p).id = taskId).status

\* The curriculum with its updatedAt and the status of that task blanked out.
Blank(doc, taskId) ==
    [exists    |-> doc.exists,
     id        |-> doc.id,
     createdAt |-> doc.createdAt,
     chapters  |-> [c \in 1..Len(doc.chapters) |->
                      [id    |-> doc.chapters[c].id,
                       order |-> doc.chapters[c].order,
                       tasks |-> [k \in 1..Len(doc.chapters[c].tasks) |->
                                    [id            |-> doc.chapters[c].tasks[k].id,
                                     estimatedTime |-> doc.chapters[c].tasks[k].estimatedTime,
                                     prerequisites |-> doc.chapters[c].tasks[k].prerequisites,
                                     status        |-> IF doc.chapters[c].tasks[k].id = taskId
                                                       THEN "blank"
                                                       ELSE doc.chapters[c].tasks[k].status]]]]]

\* Ids that are no task's id in the stored curriculum: a task of another
\* curriculum, a chapter's id and the curriculum's own id.
NonTaskIds(doc) ==
    {UnknownTaskId, TaskId(issued + 1, 1, 1), ChapterId(issued, 1), CurriculumId(issued)}
        \ TaskIdsOf(doc)

\* C11: updateTaskStatus(taskId, status) with a taskId that matches no task of
\* the stored curriculum returns null and saves nothing: whatever the status
\* and the time of the call, the document it would save is the stored one,
\* updatedAt included, and updateTaskProgress answers success = false and
\* leaves the stored curriculum as it was.
C11_UnknownTaskIsNoOp ==
    curriculum.exists =>
        \A taskId \in NonTaskIds(curriculum), status \in ProtoStatuses, t \in Instants :
            LET null == updateTaskStatus(curriculum, taskId, statusMap(status), t)
                done == updateTaskProgress(curriculum, statistics, TRUE, taskId, status, t,
                                           TRUE, TRUE)
            IN  /\ ~null.found
                /\ null.curriculum = curriculum
                /\ ~done.response.success
                /\ done.curriculum = curriculum

\* An update that found no task was answered later than the curriculum was
\* last written.
C11_Witness ==
    /\ curriculum.exists /\ statistics.exists
    /\ response = Response("updateTaskProgress", FALSE, "")
    /\ curriculum.updatedAt < now

\* C12: updateTaskStatus(taskId, status) for a task of the stored curriculum
\* changes two things only: that task's status becomes status and updatedAt
\* becomes the time of the call; every other status, all ids, the chapter
\* order values, createdAt and the other fields stay as stored.
C12_OnlyStatusAndUpdatedAt ==
    curriculum.exists =>
        \A taskId \in TaskIdsOf(curriculum), status \in TaskStatuses, t \in Instants :
            LET updated == updateTaskStatus(curriculum, taskId, status, t)
            IN  /\ updated.found
                /\ updated.curriculum.updatedAt = t
                /\ StatusIn(updated.curriculum, taskId) = status
                /\ Blank(updated.curriculum, taskId) = Blank(curriculum, taskId)

\* One task was completed after the curriculum was created while the other
\* one is still not started.
C12_Witness ==
    /\ curriculum.exists
    /\ response = Response("updateTaskProgress", TRUE, "")
    /\ curriculum.updatedAt > curriculum.createdAt
    /\ \E p, q \in Positions(curriculum) :
          /\ TaskAt(curriculum, p).status = "completed"
          /\ TaskAt(curriculum, q).status = "not_started"

\* actualTimeSpentMinutes of the stored statistics (0 while there are none).
ActualOf(file) == IF file.exists THEN file.actualTimeSpentMinutes ELSE 0

RECURSIVE SumTime(_, _)
\* The timeSpentMinutes of the taskStats whose task is one of ids, summed.
SumTime(taskStats, ids) ==
    IF taskStats = <<>> THEN 0
    ELSE (IF Head(taskStats).taskId \in ids THEN Head(taskStats).timeSpentMinutes ELSE 0)
         + SumTime(Tail(taskStats), ids)

\* timeSpentMinutes recorded for a task (0 while it has no taskStat).
TimeSpentOf(file, taskId) == IF file.exists THEN SumTime(file.taskStats, {taskId}) ELSE 0

\* The accumulated time fields: the total and every task's own.
Times(file, doc) ==
    [actual |-> ActualOf(file),
     tasks  |-> [id \in TaskIdsOf(doc) \cup {UnknownTaskId} |-> TimeSpentOf(file, id)]]

\* m is (end - start) / 60000 rounded to the nearest minute, a half going up
\* (the clock ticks twice a minute).
IsRoundedMinutes(m, start, end) == 2 * m - 1 <= end - start /\ end - start < 2 * m + 1

\* The request status that stands for a task status.
ProtoOf(status) ==
    CASE status = "not_started" -> "TASK_STATUS_NOT_STARTED"
      [] status = "in_progress" -> "TASK_STATUS_IN_PROGRESS"
      [] status = "completed"   -> "TASK_STATUS_COMPLETED"
      [] status = "skipped"     -> "TASK_STATUS_SKIPPED"

\* A call of updateTaskProgress at t whose writes go through.
Call(doc, file, taskId, status, t) ==
    updateTaskProgress(doc, file, TRUE, taskId, ProtoOf(status), t, TRUE, TRUE)

\* The task set to in_progress at t0 and then to completed at t1.
StartThenComplete(doc, file, taskId, t0, t1) ==
    LET started == Call(doc, file, taskId, "in_progress", t0)
    IN  Call(started.curriculum, started.statistics, taskId, "completed", t1)

\* after holds the time of before plus round((t1 - t0) / 60000), for the task
\* and for the total.
AddsElapsed(before, after, taskId, t0, t1) ==
    LET m == TimeSpentOf(after, taskId) - TimeSpentOf(before, taskId)
    IN  /\ IsRoundedMinutes(m, t0, t1)
        /\ (t1 - t0 = 34 => m = 17)
        /\ ActualOf(after) = ActualOf(before) + m

\* Instants from t on.
From(t) == {u \in Instants : u >= t}

C14_OtherPairsAddNoTime ==
    curriculum.exists =>
        \A taskId \in TaskIdsOf(curriculum), old \in TaskStatuses, new \in TaskStatuses,
           t \in From(now) :
            <<old, new>> # <<"in_progress", "completed">> =>
                Times(updateTaskStatistics(statistics, taskId, old, new, curriculum, t),
                      curriculum)
                    = Times(statistics, curriculum)

\* A task started earlier was skipped later on and has no time recorded.
C14_Witness ==
    /\ curriculum.exists /\ statistics.exists
    /\ response = Response("updateTaskProgress", TRUE, "")
    /\ Len(statistics.taskStats) = 1
    /\ statistics.taskStats[1].startedAt < statistics.lastActivityTime
    /\ statistics.taskStats[1].startedAt # Absent
    /\ statistics.taskStats[1].timeSpentMinutes = 0
    /\ StatusIn(curriculum, statistics.taskStats[1].taskId) = "skipped"

\* C15: updateTaskProgress for a task with the status the task already has
\* succeeds, leaves the curriculum as stored apart from updatedAt, and leaves
\* every task's timeSpentMinutes and actualTimeSpentMinutes as they were.
C15_SameStatusIsIdempotent ==
    curriculum.exists =>
        \A taskId \in TaskIdsOf(curriculum), t \in From(now) :
            LET done == Call(curriculum, statistics, taskId, StatusIn(curriculum, taskId), t)
            IN  /\ done.response.success
                /\ [done.curriculum EXCEPT !.updatedAt = curriculum.updatedAt] = curriculum
                /\ Times(done.statistics, curriculum) = Times(statistics, curriculum)

\* A completed task that took 17 minutes was updated again after its
\* completion and is still completed with 17 minutes.
C15_Witness ==
    /\ curriculum.exists /\ statistics.exists
    /\ response = Response("updateTaskProgress", TRUE, "")
    /\ Len(statistics.taskStats) = 1
    /\ statistics.taskStats[1].timeSpentMinutes = 17
    /\ statistics.actualTimeSpentMinutes = 17
    /\ StatusIn(curriculum, statistics.taskStats[1].taskId) = "completed"
    /\ now = 35 /\ curriculum.updatedAt = 35

\* The ids of the tasks of every curriculum a run can generate.
AllTaskIds ==
    UNION {{TaskId(n, c, k) : k \in 1..outline[c]} : n \in 1..MaxCurricula, c \in 1..Len(outline)}

\* C16: with the curriculum fixed and the clock never going backwards, no
\* call of getOrCreateStatistics, updateTaskStatistics or recordActivity lowers
\* a task's timeSpentMinutes or actualTimeSpentMinutes.
C16_TimingNeverLost ==
    [][/\ ActualOf(statistics') >= ActualOf(statistics)
       /\ \A id \in AllTaskIds : TimeSpentOf(statistics', id) >= TimeSpentOf(statistics, id)]_vars

\* Time was recorded on day 0 and the statistics were rewritten on day 1.
C16_Witness ==
    /\ statistics.exists
    /\ statistics.actualTimeSpentMinutes = 17
    /\ statistics.learningDates = <<0, 1>>
    /\ statistics.lastActivityTime = DayTicks

\* C17: the learningDates of the stored statistics are in ascending order
\* with no date twice, and an updateTaskStatistics call made now leaves
\* today's date in them.
C17_DatesSortedAndToday ==
    /\ statistics.exists =>
          \A i \in 1..(Len(statistics.learningDates) - 1) :
              statistics.learningDates[i] < statistics.learningDates[i + 1]
    /\ curriculum.exists =>
          \A taskId \in TaskIdsOf(curriculum), old \in TaskStatuses, new \in TaskStatuses :
              dateOf(now) \in Range(updateTaskStatistics(statistics, taskId, old, new,
                                                         curriculum, now).learningDates)

\* ------------------------------------------ claims on calculateStreak
Latest(S) == CHOOSE x \in S : \A y \in S : y <= x

\* The length of the run of consecutive days of S that ends at day d.
RunEndingAt(S, d) ==
    CHOOSE n \in 1..Cardinality(S) : (\A j \in 0..(n - 1) : d - j \in S) /\ (d - n) \notin S

\* The streak of the set S of days when today is day D.
ExpectedStreak(S, D) ==
    IF S = {} \/ Latest(S) \notin {D, D - 1} THEN 0 ELSE RunEndingAt(S, Latest(S))

\* C18: calculateStreak returns 0 for the empty list and when the latest date
\* is neither today (D) nor yesterday, and otherwise the length of the run of
\* consecutive days ending at the latest date, whatever the order of the list
\* and the time of day; {D-2, D-1, D} gives 3, {D-5} gives 0, {D} gives 1,
\* {D-1} gives 1 and {D-3, D-1, D} gives 2.
C18_StreakLaw ==
    /\ streak # Absent => streak = ExpectedStreak(Range(dates), dateOf(now))
    /\ \A D \in 5..MaxDate, o \in Offsets :
          LET t == D * DayTicks + o
          IN  /\ calculateStreak(<<D - 2, D - 1, D>>, t) = 3
              /\ calculateStreak(<<D - 5>>, t) = 0
              /\ calculateStreak(<<D>>, t) = 1
              /\ calculateStreak(<<D - 1>>, t) = 1
              /\ calculateStreak(<<D - 3, D - 1, D>>, t) = 2

\* The streak of {D-3, D-1, D} was computed as 2.
C18_Witness ==
    /\ streak = 2
    /\ dateOf(now) >= 3
    /\ Range(dates) = {dateOf(now) - 3, dateOf(now) - 1, dateOf(now)}

\* ------------------------------------------ claims on statistics
\* The number of tasks of the stored curriculum that have that status.
CountIn(doc, status) == Cardinality({p \in Positions(doc) : TaskAt(doc, p).status = status})

\* The counts of the statistics are those of the curriculum.
CountsMatch(file, doc) ==
    /\ file.completedTasks = CountIn(doc, "completed")
    /\ file.inProgressTasks = CountIn(doc, "in_progress")
    /\ file.skippedTasks = CountIn(doc, "skipped")
    /\ file.notStartedTasks = CountIn(doc, "not_started")
    /\ file.totalTasks = Cardinality(Positions(doc))
    /\ file.completedTasks + file.inProgressTasks + file.skippedTasks + file.notStartedTasks
           = file.totalTasks
    /\ IF file.totalTasks > 0
       THEN file.completionPercentage.num * file.totalTasks
                = file.completedTasks * 100 * file.completionPercentage.den
       ELSE file.completionPercentage.num = 0

\* C19: after a successful updateTaskProgress the stored statistics, which are
\* the ones it returned, have per-status counts equal to the numbers of tasks
\* with that status in the stored curriculum, the four counts sum to
\* totalTasks, and completionPercentage is completedTasks / totalTasks x 100.
C19_CountsFollowCurriculum ==
    /\ response.success => statistics.exists /\ CountsMatch(statistics, curriculum)
    /\ curriculum.exists =>
          \A taskId \in TaskIdsOf(curriculum), status \in TaskStatuses :
              LET done == Call(curriculum, statistics, taskId, status, now)
              IN  done.response.success /\ CountsMatch(done.statistics, done.curriculum)

\* After a successful update one task is completed and the other in progress:
\* the completion percentage is 50.
C19_Witness ==
    /\ response = Response("updateTaskProgress", TRUE, "")
    /\ statistics.exists
    /\ statistics.completedTasks = 1 /\ statistics.inProgressTasks = 1
    /\ statistics.completionPercentage = [num |-> 100, den |-> 2]

\* C20: statistics that belong to the stored curriculum hold no taskStat of a
\* task of another curriculum, and their actualTimeSpentMinutes is the time
\* recorded for the tasks of the stored curriculum.
C20_RegenerationClearsTime ==
    (curriculum.exists /\ statistics.exists /\ statistics.curriculumId = curriculum.id) =>
        /\ \A i \in 1..Len(statistics.taskStats) :
              statistics.taskStats[i].taskId \in TaskIdsOf(curriculum)
        /\ statistics.actualTimeSpentMinutes
               = SumTime(statistics.taskStats, TaskIdsOf(curriculum))

\* ------------------------------------------------- QuizResultAnalyzer
\* answers.find((a) => a.questionId === question.id): the index of the first
\* answer to that question, 0 when there is none.
findAnswer(answers, questionId) ==
    LET hits == {i \in 1..Len(answers) : answers[i].questionId = questionId}
    IN  IF hits = {} THEN 0 ELSE Least(hits)

\* A mutated test: a question without an answer counts as answered correctly.
answeredCorrectly_lenient(answers, question) ==
    LET i == findAnswer(answers, question.id)
    IN  i = 0 \/ answers[i].isCorrect

\* if (answer?.isCorrect)
answeredCorrectly(answers, question) ==
    LET i == findAnswer(answers, question.id)
    IN  i # 0 /\ answers[i].isCorrect

\* techQuestions[tech]: the questions of that technology and how many of them
\* have a correct answer.
techQuestions(questions, answers, tech) ==
    LET asked == {i \in 1..Len(questions) : questions[i].technology = tech}
    IN  [total   |-> Cardinality(asked),
         correct |-> Cardinality({i \in asked : answeredCorrectly(answers, questions[i])})]

\* ratioToProficiency(correct / total): the quotient is compared with 0.9, 0.6
\* and 0.3 (a quotient of small integers that equals one of them exactly is
\* the same double as the literal).
ratioToProficiency(correct, total) ==
    IF correct * 10 >= 9 * total THEN "expert"
    ELSE IF correct * 10 >= 6 * total THEN "practical"
    ELSE IF correct * 10 >= 3 * total THEN "basic"
    ELSE "no_experience"

\* calculateProficiencyLevels: one entry per key of techQuestions.
calculateProficiencyLevels(questions, answers) ==
    [tech \in {questions[i].technology : i \in 1..Len(questions)} |->
        LET stats == techQuestions(questions, answers, tech)
        IN  ratioToProficiency(stats.correct, stats.total)]

\* calculateOverallScore: correctCount / answers.length, kept as the quotient.
calculateOverallScore(answers) ==
    IF Len(answers) = 0 THEN [num |-> 0, den |-> 1]
    ELSE [num |-> Cardinality({i \in 1..Len(answers) : answers[i].isCorrect}),
          den |-> Len(answers)]

\* A mutated level: the thresholds are exclusive.
determineOverallLevel_exclusive(score) ==
    IF score.num * 10 > 7 * score.den THEN "advanced"
    ELSE IF score.num * 10 > 4 * score.den THEN "intermediate"
    ELSE "beginner"

\* determineOverallLevel(score): score >= 0.7, score >= 0.4.
determineOverallLevel(score) ==
    IF score.num * 10 >= 7 * score.den THEN "advanced"
    ELSE IF score.num * 10 >= 4 * score.den THEN "intermediate"
    ELSE "beginner"

\* QuizResultAnalyzer.analyze(quiz, answers) with the clock reading t.
analyze(quizId, questions, answers, t) ==
    [quizId            |-> quizId,
     answers           |-> answers,
     proficiencyLevels |-> calculateProficiencyLevels(questions, answers),
     overallLevel      |-> determineOverallLevel(calculateOverallScore(answers)),
     overallScore      |-> calculateOverallScore(answers),
     completedAt       |-> t]

\* ------------------------------------------------------------ SpecAnalyze
\* The technologies of the questions handed to analyze.
AskedTechs == {"React", "Go"}

\* The quizzes handed to analyze: up to MaxAsked questions, the id of a
\* question being its position.
AskedQuizzes ==
    UNION {[1..n -> AskedTechs] : n \in 0..MaxAsked}

QuestionsOf(techOf) ==
    [i \in 1..Len(techOf) |-> [id |-> i, technology |-> techOf[i]]]

\* What the learner did with a question.
Outcomes == {"unanswered", "correct", "wrong"}

RECURSIVE AnswersOf(_, _)
\* The recorded answers, in question order, of a learner whose outcome on
\* question i is outcome[i], from question i on.
AnswersOf(outcome, i) ==
    IF i > Len(outcome) THEN <<>>
    ELSE IF outcome[i] = "unanswered" THEN AnswersOf(outcome, i + 1)
    ELSE <<[questionId |-> i, selectedChoiceId |-> "A",
            isCorrect |-> (outcome[i] = "correct"), timeSpentSeconds |-> 3]>>
         \o AnswersOf(outcome, i + 1)

InitAnalyze ==
    /\ IdleGeneration
    /\ NoProgress
    /\ onboarding = NoOnboarding
    /\ \E techOf \in AskedQuizzes :
          /\ taken = QuestionsOf(techOf)
          /\ \E outcome \in [1..Len(techOf) -> Outcomes] : given = AnswersOf(outcome, 1)
    /\ analysis = Pending
    /\ quizFiles = NoQuizFiles /\ checked = Pending /\ quizzes = 0
    /\ tree = <<>> /\ walked = Pending
    /\ present = {} /\ patterns = Pending
    /\ shown = NoCurriculum /\ clicks = <<>>
    /\ NoSubscriptions

ApplyAnalyze ==
    /\ analysis = Pending
    /\ analysis' = analyze(1, taken, given, now)
    /\ UNCHANGED <<parseVars, envVars, fileVars, runVars, progVars, onboarding, quizVars,
                   taken, given, tree, walked, present, patterns, viewVars, subVars>>

NextAnalyze == ApplyAnalyze

SpecAnalyze == InitAnalyze /\ [][NextAnalyze]_vars

\* ------------------------------------------ claims on QuizResultAnalyzer
\* The number of correct answers of a list.
CorrectIn(answers) == Cardinality({i \in 1..Len(answers) : answers[i].isCorrect})

\* The answer list with these correctness flags.
Marked(flags) ==
    [i \in 1..Len(flags) |-> [questionId |-> i, selectedChoiceId |-> "A",
                              isCorrect |-> flags[i], timeSpentSeconds |-> 3]]

\* C24: analyze sets overallScore to (answers with isCorrect) / (answers), 0
\* when there is no answer, and overallLevel to advanced when the score is at
\* least 0.7, intermediate when it is at least 0.4, beginner otherwise;
\* [correct, correct, wrong, correct, wrong] gives 0.6 and intermediate.
C24_ScoreAndLevel ==
    /\ analysis # Pending =>
          LET n == Len(given)
              k == CorrectIn(given)
              score == analysis.overallScore
          IN  /\ IF n = 0 THEN score.num = 0
                 ELSE score.num * n = k * score.den
              /\ score.den > 0
              /\ analysis.overallLevel =
                    IF n > 0 /\ 10 * k >= 7 * n THEN "advanced"
                    ELSE IF n > 0 /\ 10 * k >= 4 * n THEN "intermediate"
                    ELSE "beginner"
    /\ LET example == analyze(1, taken, Marked(<<TRUE, TRUE, FALSE, TRUE, FALSE>>), now)
       IN  /\ example.overallScore.num * 10 = 6 * example.overallScore.den
           /\ example.overallLevel = "intermediate"

\* The answers [correct, correct, wrong, correct, wrong] were analyzed.
C24_Witness ==
    /\ analysis # Pending
    /\ Len(taken) = 5
    /\ given = Marked(<<TRUE, TRUE, FALSE, TRUE, FALSE>>)
    /\ analysis.overallScore = [num |-> 3, den |-> 5]
    /\ analysis.overallLevel = "intermediate"

\* The questions of that technology, and those of them with a recorded
\* correct answer.
AskedOf(tech) == {i \in 1..Len(taken) : taken[i].technology = tech}

CorrectOf(tech) ==
    {i \in AskedOf(tech) : \E j \in 1..Len(given) : given[j].questionId = i /\ given[j].isCorrect}

\* C25: analyze returns a proficiency entry for exactly the technologies on the
\* quiz's questions; the level of each is the bucket of (its questions with a
\* recorded correct answer) / (its questions): at least 0.9 expert, at least
\* 0.6 practical, at least 0.3 basic, otherwise no_experience, a question
\* without a recorded answer counting as not correct.
C25_ProficiencyPerTechnology ==
    analysis # Pending =>
        /\ DOMAIN analysis.proficiencyLevels = {taken[i].technology : i \in 1..Len(taken)}
        /\ \A tech \in DOMAIN analysis.proficiencyLevels :
              LET n == Cardinality(AskedOf(tech))
                  k == Cardinality(CorrectOf(tech))
              IN  analysis.proficiencyLevels[tech] =
                     IF 10 * k >= 9 * n THEN "expert"
                     ELSE IF 10 * k >= 6 * n THEN "practical"
                     ELSE IF 10 * k >= 3 * n THEN "basic"
                     ELSE "no_experience"

\* Two technologies were analyzed: every React question was answered
\* correctly, and one of the three Go questions, the others left unanswered.
C25_Witness ==
    /\ analysis # Pending
    /\ Cardinality(AskedOf("React")) = 2 /\ Cardinality(AskedOf("Go")) = 3
    /\ Len(given) = 3
    /\ analysis.proficiencyLevels = [tech \in AskedTechs |->
                                        IF tech = "React" THEN "expert" ELSE "basic"]

\* ------------------------------------------------------------ QuizManager
\* Two question lists the LLM may emit: one question whose choice B is the
\* correct one, and one question without choices.  parseResponse pads both to
\* QuizSize questions with placeholders, whose correct choice is A.
ReactQuestion ==
    [technology |-> "React", difficulty |-> "advanced", explanation |-> "e",
     hasChoices |-> TRUE, choices |-> <<Ch("A", "false"), Ch("B", "true")>>]

BareQuestion ==
    [technology |-> Undef, difficulty |-> Undef, explanation |-> Undef,
     hasChoices |-> FALSE, choices |-> <<>>]

EmittedQuizzes == {<<ReactQuestion>>, <<BareQuestion>>}

\* The fresh uuid of question idx of the n-th quiz.
QuestionId(n, idx) == <<n, idx>>

\* The QuizData parseResponse returns for the n-th quiz, with the clock
\* reading t.
newQuiz(n, qs, t) ==
    LET parsed == parseQuestions(qs, 1)
    IN  [exists             |-> TRUE,
         id                 |-> n,
         questions          |-> [i \in 1..Len(parsed.questions) |->
                                    [parsed.questions[i] EXCEPT !.id = QuestionId(n, i)]],
         targetTechnologies |-> parsed.targetTechnologies,
         createdAt          |-> t]

\* loadAnswers: the content of quiz-answers.json, [] when it cannot be read.
loadAnswers(files) == IF files.answers.exists THEN files.answers.list ELSE <<>>

\* getAnswers: loadAnswers, then a copy of currentAnswers.
getAnswers(files) == loadAnswers(files)

\* A mutated clearAnswers: currentAnswers is reset, the file is kept.
clearAnswers_memoryOnly(files) == files

\* clearAnswers: currentAnswers = [] and fs.unlink of quiz-answers.json, a
\* missing file being ignored.
clearAnswers(files) == [files EXCEPT !.answers = NoFile]

\* saveQuiz: write quiz.json, then clearAnswers.
saveQuiz(files, quizData) == clearAnswers([files EXCEPT !.quiz = quizData])

\* deleteQuiz: unlink quiz.json and quiz-result.json, then clearAnswers.
deleteQuiz(files) == clearAnswers([files EXCEPT !.quiz = NoFile, !.result = NoFile])

\* A mutated recordAnswer: the answer is always pushed.
recordAnswer_push(files, answer) ==
    [files EXCEPT !.answers = [exists |-> TRUE, list |-> Append(loadAnswers(files), answer)]]

\* recordAnswer: loadAnswers, replace the answer to the same question or push,
\* saveAnswers.
recordAnswer(files, answer) ==
    LET current == loadAnswers(files)
        existingIndex == findAnswer(current, answer.questionId)
    IN  [files EXCEPT !.answers =
            [exists |-> TRUE,
             list   |-> IF existingIndex > 0
                        THEN [current EXCEPT ![existingIndex] = answer]
                        ELSE Append(current, answer)]]

\* The index of the first question with that id, 0 when there is none.
findQuestion(questions, questionId) ==
    LET hits == {i \in 1..Len(questions) : questions[i].id = questionId}
    IN  IF hits = {} THEN 0 ELSE Least(hits)

\* What checkAnswer hands back: the error it throws ("" when none) or the
\* verdict.
Verdict(thrown, isCorrect, correctChoiceId, explanation) ==
    [thrown |-> thrown, isCorrect |-> isCorrect, correctChoiceId |-> correctChoiceId,
     explanation |-> explanation]

\* A mutated checkAnswer: the verdict is recorded as an answer.
checkAnswer_recording(files, quizId, questionId, selectedChoiceId) ==
    [files  |-> recordAnswer(files, [questionId |-> questionId,
                                     selectedChoiceId |-> selectedChoiceId,
                                     isCorrect |-> FALSE, timeSpentSeconds |-> 0]),
     answer |-> Verdict("Quiz not found", FALSE, "", "")]

\* checkAnswer(quizId, questionId, selectedChoiceId): the files it leaves and
\* what it returns.
checkAnswer(files, quizId, questionId, selectedChoiceId) ==
    LET quizData == files.quiz
        q        == findQuestion(quizData.questions, questionId)
        question == quizData.questions[q]
        correct  == firstCorrect(question.choices)      \* choices.find((c) => c.isCorrect)
        answer   ==
            IF ~quizData.exists \/ quizData.id # quizId
            THEN Verdict("Quiz not found", FALSE, "", "")
            ELSE IF q = 0
            THEN Verdict("Question not found", FALSE, "", "")
            ELSE Verdict("",
                         correct # 0 /\ question.choices[correct].id = selectedChoiceId,
                         IF correct = 0 THEN "" ELSE question.choices[correct].id,
                         question.explanation)
    IN  [files |-> files, answer |-> answer]

\* A mutated submitQuizAnswer: the answer is recorded although checkAnswer
\* threw.
submitQuizAnswer_unchecked(files, workspace, quizId, questionId, selectedChoiceId, timeSpentSeconds) ==
    LET result == checkAnswer(files, quizId, questionId, selectedChoiceId)
    IN  IF ~workspace
        THEN [files |-> files, answer |-> Verdict("", FALSE, "", "No workspace path available")]
        ELSE [files  |-> recordAnswer(result.files,
                                      [questionId       |-> questionId,
                                       selectedChoiceId |-> selectedChoiceId,
                                       isCorrect        |-> result.answer.isCorrect,
                                       timeSpentSeconds |-> timeSpentSeconds]),
              answer |-> result.answer]

\* The submitQuizAnswer handler: checkAnswer, then recordAnswer with its
\* verdict; an error thrown by checkAnswer is answered with its message and
\* nothing is recorded.
submitQuizAnswer(files, workspace, quizId, questionId, selectedChoiceId, timeSpentSeconds) ==
    LET result == checkAnswer(files, quizId, questionId, selectedChoiceId)
    IN  IF ~workspace
        THEN [files |-> files, answer |-> Verdict("", FALSE, "", "No workspace path available")]
        ELSE IF result.answer.thrown # ""
        THEN [files  |-> result.files,
              answer |-> Verdict("", FALSE, "", result.answer.thrown)]
        ELSE [files  |-> recordAnswer(result.files,
                                      [questionId       |-> questionId,
                                       selectedChoiceId |-> selectedChoiceId,
                                       isCorrect        |-> result.answer.isCorrect,
                                       timeSpentSeconds |-> timeSpentSeconds]),
              answer |-> result.answer]

\* The completeQuiz handler: with a quiz and at least one answer, analyze and
\* saveResult; nothing is written otherwise.
completeQuiz(files, workspace, t) ==
    IF ~workspace \/ ~files.quiz.exists \/ Len(getAnswers(files)) = 0
    THEN files
    ELSE [files EXCEPT !.result =
             [exists |-> TRUE,
              data   |-> analyze(files.quiz.id, files.quiz.questions, getAnswers(files), t)]]

\* ------------------------------------- OnboardingEnvironmentManager
\* environmentExists: .onboarding is a directory.
environmentExists(env) == env.dir

\* initializeEnvironment: mkdir, createGitignore, createReadme.
initializeEnvironment(env) == [mkdir(env) EXCEPT !.gitignore = TRUE, !.readme = TRUE]

\* The initEnvironment handler.
initEnvironment(env, workspace) ==
    IF ~workspace \/ environmentExists(env) THEN env ELSE initializeEnvironment(env)

\* The saveProfile handler: initializeEnvironment unless the environment
\* exists, then UserProfileManager.saveProfile (mkdir, write
\* user_profile.json).
saveProfile(env, workspace, hasProfileField) ==
    IF ~workspace \/ ~hasProfileField THEN env
    ELSE LET ready == IF ~environmentExists(env) THEN initializeEnvironment(env) ELSE env
         IN  [mkdir(ready) EXCEPT !.profile = TRUE]

\* ---------------------------------------------------------------- SpecQuiz
\* A quiz id and a question id that no stored quiz has.
UnknownQuizId == 0

UnknownQuestionId == QuestionId(0, 0)

\* The quiz ids and question ids of the requests: those of the stored quiz
\* (its first two questions) and unknown ones.
RequestQuizIds ==
    {UnknownQuizId} \cup (IF quizFiles.quiz.exists THEN {quizFiles.quiz.id} ELSE {})

RequestQuestionIds ==
    {UnknownQuestionId}
        \cup (IF quizFiles.quiz.exists
              THEN {QuestionId(quizFiles.quiz.id, 1), QuestionId(quizFiles.quiz.id, 2)}
              ELSE {})

RequestChoiceIds == {"A", "B"}

\* The state no quiz handler touches.
quizRest == <<parseVars, envVars, fileVars, runVars, progVars, scanVars, viewVars, subVars>>

\* generateQuiz seen from the stored files: the generation either completes
\* and saveQuiz stores the next quiz, or fails and stores none.
GenerateQuiz ==
    /\ hasWorkspace
    /\ quizzes < MaxQuizzes
    /\ \E completes \in BOOLEAN, qs \in EmittedQuizzes :
          IF completes
          THEN /\ quizFiles' = saveQuiz(quizFiles, newQuiz(quizzes + 1, qs, now))
               /\ onboarding' = mkdir(onboarding)
               /\ quizzes' = quizzes + 1
          ELSE UNCHANGED <<quizFiles, onboarding, quizzes>>
    /\ UNCHANGED <<quizRest, checked>>

\* QuizManager.deleteQuiz.
DeleteQuiz ==
    /\ quizFiles' = deleteQuiz(quizFiles)
    /\ UNCHANGED <<quizRest, onboarding, checked, quizzes>>

\* QuizManager.checkAnswer, called on its own.
CheckAnswer ==
    /\ \E quizId \in RequestQuizIds, questionId \in RequestQuestionIds,
          selectedChoiceId \in RequestChoiceIds :
          LET done == checkAnswer(quizFiles, quizId, questionId, selectedChoiceId)
          IN  /\ quizFiles' = done.files
              /\ checked' = done.answer
    /\ UNCHANGED <<quizRest, onboarding, quizzes>>

\* The submitQuizAnswer handler; saveAnswers creates .onboarding.
SubmitQuizAnswer ==
    /\ \E quizId \in RequestQuizIds, questionId \in RequestQuestionIds,
          selectedChoiceId \in RequestChoiceIds :
          LET done == submitQuizAnswer(quizFiles, hasWorkspace, quizId, questionId,
                                       selectedChoiceId, 3)
          IN  /\ quizFiles' = done.files
              /\ checked' = done.answer
              /\ onboarding' = IF done.files # quizFiles THEN mkdir(onboarding) ELSE onboarding
    /\ UNCHANGED <<quizRest, quizzes>>

\* The completeQuiz handler; saveResult creates .onboarding.
CompleteQuiz ==
    /\ quizFiles' = completeQuiz(quizFiles, hasWorkspace, now)
    /\ onboarding' = IF quizFiles' # quizFiles THEN mkdir(onboarding) ELSE onboarding
    /\ UNCHANGED <<quizRest, checked, quizzes>>

\* The saveProfile handler, with and without request.profile.
SaveProfile ==
    /\ \E hasProfileField \in BOOLEAN :
          onboarding' = saveProfile(onboarding, hasWorkspace, hasProfileField)
    /\ UNCHANGED <<quizRest, quizVars>>

\* The initEnvironment handler.
InitEnvironment ==
    /\ onboarding' = initEnvironment(onboarding, hasWorkspace)
    /\ UNCHANGED <<quizRest, quizVars>>

\* An empty workspace.
InitQuiz == InitWorkspace(<<>>)

NextQuiz ==
    \/ GenerateQuiz \/ DeleteQuiz \/ CheckAnswer \/ SubmitQuizAnswer \/ CompleteQuiz
    \/ SaveProfile \/ InitEnvironment

SpecQuiz == InitQuiz /\ [][NextQuiz]_vars

RecordedQuestionIds == RequestQuestionIds \cup {QuestionId(quizzes + 1, 1)}

\* The answer a list holds for that question ("none" when it holds none).
AnswerTo(answers, questionId) ==
    IF findAnswer(answers, questionId) = 0 THEN [questionId |-> "none"]
    ELSE answers[findAnswer(answers, questionId)]

OnePerQuestion(answers) ==
    \A i, j \in 1..Len(answers) : answers[i].questionId = answers[j].questionId => i = j

\* C22: the stored answer list holds at most one answer per questionId, and a
\* recordAnswer call makes its answer the one stored for its question and
\* leaves the answers to all other questions as they were.
C22_OneAnswerPerQuestion ==
    /\ OnePerQuestion(getAnswers(quizFiles))
    /\ \A questionId \in RecordedQuestionIds, selectedChoiceId \in RequestChoiceIds,
          isCorrect \in BOOLEAN :
          LET answer == [questionId |-> questionId, selectedChoiceId |-> selectedChoiceId,
                         isCorrect |-> isCorrect, timeSpentSeconds |-> 7]
              after  == getAnswers(recordAnswer(quizFiles, answer))
          IN  /\ OnePerQuestion(after)
              /\ AnswerTo(after, questionId) = answer
              /\ \A other \in RecordedQuestionIds \ {questionId} :
                    AnswerTo(after, other) = AnswerTo(getAnswers(quizFiles), other)

\* The answer to question 1 was replaced after the quiz had been completed:
\* the result holds the earlier answer, the answer list the later one, and the
\* answer to question 2 is the one the result holds.
C22_Witness ==
    /\ quizFiles.result.exists
    /\ LET before == quizFiles.result.data.answers
           stored == getAnswers(quizFiles)
           first  == QuestionId(quizFiles.quiz.id, 1)
           second == QuestionId(quizFiles.quiz.id, 2)
       IN  /\ quizFiles.quiz.exists /\ quizFiles.result.data.quizId = quizFiles.quiz.id
           /\ Len(before) = 2 /\ Len(stored) = 2
           /\ AnswerTo(before, first).selectedChoiceId = "A"
           /\ AnswerTo(stored, first).selectedChoiceId = "B"
           /\ AnswerTo(stored, second) = AnswerTo(before, second)

\* C23: checkAnswer changes no stored file: whatever the ids, the quiz, the
\* recorded answers and the result are after the call what they were before
\* it, also when it is called again with the same or another choice, and the
\* second call with the same arguments returns what the first returned.
C23_CheckAnswerIsPureRead ==
    \A quizId \in RequestQuizIds, questionId \in RequestQuestionIds,
       selectedChoiceId \in RequestChoiceIds :
        LET once  == checkAnswer(quizFiles, quizId, questionId, selectedChoiceId)
            twice == checkAnswer(once.files, quizId, questionId, selectedChoiceId)
        IN  /\ once.files = quizFiles
            /\ twice.files = quizFiles
            /\ twice.answer = once.answer
            /\ \A otherChoiceId \in RequestChoiceIds :
                  checkAnswer(once.files, quizId, questionId, otherChoiceId).files = quizFiles

\* checkAnswer found a choice correct on the first quiz and no answer is
\* recorded.
C23_Witness ==
    /\ quizFiles.quiz.exists /\ quizFiles.quiz.id = 1 /\ quizzes = 1
    /\ checked # Pending /\ checked.thrown = "" /\ checked.isCorrect
    /\ ~quizFiles.answers.exists /\ ~quizFiles.result.exists

\* C29: whenever user_profile.json exists under .onboarding, the .gitignore
\* that excludes it exists as well.
C29_ProfileImpliesGitignore ==
    onboarding.profile => onboarding.gitignore

\* ------------------------------------------ claims on curriculum ids
\* The ids of the chapters of a curriculum followed by the ids of its tasks.
RECURSIVE IdList(_, _)
IdList(doc, c) ==
    IF c > Len(doc.chapters) THEN <<>>
    ELSE <<doc.chapters[c].id>>
         \o [k \in 1..Len(doc.chapters[c].tasks) |-> doc.chapters[c].tasks[k].id]
         \o IdList(doc, c + 1)

IdsDistinct(doc) ==
    LET ids == IdList(doc, 1)
    IN  \A i, j \in 1..Len(ids) : ids[i] = ids[j] => i = j

OrderDense(doc) == \A c \in 1..Len(doc.chapters) : doc.chapters[c].order = c - 1

\* Outlines the LLM may emit: no chapter, a chapter without tasks, several
\* tasks per chapter.
Outlines == {<<>>, <<0>>, <<2, 2>>, <<1, 0, 3>>}

\* C26: in every stored curriculum reached by a generation followed by
\* updateTaskStatus calls, the ids of all chapters and all tasks are pairwise
\* distinct and the chapter order values are 0..N-1 in list order; the same
\* holds for what parseResponse builds from any outline and for what any
\* updateTaskStatus call leaves.
C26_IdsDistinctOrderDense ==
    /\ \A shape \in Outlines :
          /\ IdsDistinct(newCurriculum(issued + 1, shape, now))
          /\ OrderDense(newCurriculum(issued + 1, shape, now))
    /\ curriculum.exists =>
          /\ IdsDistinct(curriculum) /\ OrderDense(curriculum)
          /\ \A taskId \in RequestTaskIds, status \in TaskStatuses :
                LET left == updateTaskStatus(curriculum, taskId, status, now).curriculum
                IN  IdsDistinct(left) /\ OrderDense(left)

\* A generated curriculum of two chapters after two status updates.
C26_Witness ==
    /\ curriculum.exists
    /\ Len(curriculum.chapters) = 2
    /\ curriculum.chapters[1].tasks[1].status = "completed"
    /\ curriculum.chapters[2].tasks[1].status = "in_progress"
    /\ curriculum.updatedAt > curriculum.createdAt

\* ------------------------------------------------- ProjectAnalyzer: the walk
\* Directories to exclude from analysis.
EXCLUDED_DIRS ==
    {"node_modules", ".git", "dist", "build", ".next", "__pycache__", ".venv", "venv",
     ".idea", ".vscode", "coverage", ".nyc_output", ".onboarding"}

\* entry.name.startsWith("."), over the names the walked trees hold.
startsWithDot(name) == name \in {".git", ".gitignore", ".env"}

\* entry.name.startsWith(".env"), over the names the walked trees hold.
startsWithEnv(name) == name \in {".env"}

\* The larger of two numbers.
Larger(a, b) == IF a >= b THEN a ELSE b

\* fs.readdir of a directory at that depth, sorted directories first: the tree
\* is given level by level, every directory of a level holding node_modules,
\* the level's number of subdirectories (none at the last level), a .env
\* file, a .gitignore file and the level's number of ordinary files.
sortedEntries(levels, depth) ==
    LET level == levels[depth + 1]
        below == IF depth + 1 < Len(levels) THEN level.dirs ELSE 0
    IN  <<[name |-> "node_modules", no |-> 0, isDirectory |-> TRUE]>>
        \o [i \in 1..below |-> [name |-> "lib", no |-> i, isDirectory |-> TRUE]]
        \o <<[name |-> ".env", no |-> 0, isDirectory |-> FALSE],
             [name |-> ".gitignore", no |-> 0, isDirectory |-> FALSE]>>
        \o [i \in 1..level.files |-> [name |-> "index.ts", no |-> i, isDirectory |-> FALSE]]

\* What a walk has done so far: totalFiles, the largest number of files it
\* listed under one directory, the largest depth of a directory it read
\* (none: -1) and the largest depth of a node it made.
NoWalk == [totalFiles |-> 0, listed |-> 0, read |-> 0 - 1, met |-> 0 - 1]

\* A mutated guard: the walk stops one level too late.
tooDeep_inclusive(depth) == depth > MAX_DEPTH

\* depth >= MAX_DEPTH
tooDeep(depth) == depth >= MAX_DEPTH

\* fileCount >= MAX_FILES_PER_DIR
dirFull(fileCount) == fileCount >= MAX_FILES_PER_DIR

\* this.totalFiles >= MAX_TOTAL_FILES
walkFull(totalFiles) == totalFiles >= MAX_TOTAL_FILES

RECURSIVE analyzeStructure(_, _, _)
RECURSIVE forEntries(_, _, _, _, _, _)

\* One turn of the loop of analyzeStructure, for that entry: continue on an
\* excluded or dot entry, break when the directory or the walk is full,
\* recurse into a directory, list a file. The loop's state is the walk so
\* far, the directory's fileCount and whether the loop has broken.
forEntry(levels, depth, entry, loop) ==
    CASE entry.name \in EXCLUDED_DIRS -> loop
      [] startsWithDot(entry.name) /\ ~startsWithEnv(entry.name) -> loop
      [] dirFull(loop.fileCount) -> [loop EXCEPT !.broken = TRUE]
      [] walkFull(loop.walk.totalFiles) -> [loop EXCEPT !.broken = TRUE]
      [] entry.isDirectory ->
            [loop EXCEPT !.walk = analyzeStructure(levels, depth + 1, loop.walk)]
      [] OTHER ->
            [loop EXCEPT !.walk = [loop.walk EXCEPT !.totalFiles = @ + 1],
                         !.fileCount = @ + 1]

\* The loop of analyzeStructure over the entries lo..hi in order, nothing
\* being done after a break (the range is taken in two halves, the first half
\* before the second).
forEntries(levels, depth, entries, lo, hi, loop) ==
    IF lo > hi THEN loop
    ELSE IF lo = hi THEN forEntry(levels, depth, entries[lo], loop)
    ELSE LET mid == (lo + hi) \div 2
             first == forEntries(levels, depth, entries, lo, mid, loop)
         IN  IF first.broken THEN first
             ELSE forEntries(levels, depth, entries, mid + 1, hi, first)

\* analyzeStructure(dirPath, depth), dirPath a directory of that depth.
analyzeStructure(levels, depth, walk) ==
    LET node == [walk EXCEPT !.met = Larger(@, depth)]
        entries == sortedEntries(levels, depth)
        after == forEntries(levels, depth, entries, 1, Len(entries),
                            [walk |-> [node EXCEPT !.read = Larger(@, depth)],
                             fileCount |-> 0, broken |-> FALSE])
    IN  IF tooDeep(depth) \/ walkFull(walk.totalFiles) THEN node
        ELSE [after.walk EXCEPT !.listed = Larger(@, after.fileCount)]

\* The shapes of a level: a few files and one subdirectory, no file and two
\* subdirectories, the largest numbers of both.
LevelShapes ==
    {[dirs |-> 1, files |-> 3], [dirs |-> 2, files |-> 0],
     [dirs |-> MaxSubdirs, files |-> MaxFiles]}

\* The trees handed to the walk.
Trees == UNION {[1..n -> LevelShapes] : n \in 1..MaxLevels}

InitWalk ==
    /\ IdleGeneration
    /\ NoProgress
    /\ onboarding = NoOnboarding
    /\ tree \in Trees
    /\ walked = Pending
    /\ quizFiles = NoQuizFiles /\ checked = Pending /\ quizzes = 0
    /\ taken = <<>> /\ given = <<>> /\ analysis = Pending
    /\ present = {} /\ patterns = Pending
    /\ shown = NoCurriculum /\ clicks = <<>>
    /\ NoSubscriptions

\* analyze(): this.totalFiles = 0, then the walk from the root at depth 0.
AnalyzeStructure ==
    /\ walked = Pending
    /\ walked' = analyzeStructure(tree, 0, NoWalk)
    /\ UNCHANGED <<parseVars, envVars, fileVars, runVars, progVars, onboarding, quizVars,
                   taken, given, analysis, tree, present, patterns, viewVars, subVars>>

NextWalk == AnalyzeStructure

SpecWalk == InitWalk /\ [][NextWalk]_vars

\* ------------------------------------------ claims on the walk
\* C27: the walk of every tree ends, having listed at most 500 files in all
\* and at most 50 files under any one directory, and having read no directory
\* at depth 4 or more (root = depth 0).
C27_WalkBounded ==
    walked # Pending =>
        /\ walked.totalFiles <= 500
        /\ walked.listed <= 50
        /\ walked.read < 4

\* A tree wider and deeper than the caps was walked: 500 files listed, 50 of
\* one directory, a directory at depth 4 met and none read.
C27_Witness ==
    /\ walked # Pending
    /\ Len(tree) > 5
    /\ walked.totalFiles = 500
    /\ walked.listed = 50
    /\ walked.met = 4
    /\ walked.read = 3

\* ------------------------------------------- ProjectAnalyzer: the patterns
mvcIndicators == <<"controllers", "models", "views", "routes">>
cleanIndicators == <<"domain", "usecases", "infrastructure", "presentation", "application">>
featureIndicators == <<"features", "modules">>
componentIndicators == <<"components", "pages", "layouts", "hooks">>
serviceIndicators == <<"services", "repositories", "providers">>

\* checkDirectoriesExist(names): for each name in order, src/<name> when it
\* is a directory, otherwise <name> when it is one. dirs is the set of paths
\* relative to the workspace that are directories, a path being the sequence
\* of its segments.
RECURSIVE checkDirectoriesExist(_, _)
checkDirectoriesExist(names, dirs) ==
    IF names = <<>> THEN <<>>
    ELSE (IF <<"src", Head(names)>> \in dirs THEN <<(<<"src", Head(names)>>)>>
          ELSE IF <<Head(names)>> \in dirs THEN <<(<<Head(names)>>)>>
          ELSE <<>>)
         \o checkDirectoriesExist(Tail(names), dirs)

\* A mutated threshold: one indicator is enough.
enough_one(found) == Len(found) >= 1

\* found.length >= 2
enough(found) == Len(found) >= 2

\* One of the four detections scored by ratio: the pattern is pushed when
\* enough indicators are found, with confidence found.length /
\* indicators.length (kept as a quotient).
detectByRatio(name, indicators, dirs) ==
    LET found == checkDirectoriesExist(indicators, dirs)
    IN  IF enough(found)
        THEN <<[name |-> name,
                confidence |-> [num |-> Len(found), den |-> Len(indicators)],
                indicators |-> found]>>
        ELSE <<>>

\* The Feature-based detection: pushed when one indicator is found, with
\* confidence 0.7.
detectFeatureBased(dirs) ==
    LET found == checkDirectoriesExist(featureIndicators, dirs)
    IN  IF Len(found) >= 1
        THEN <<[name |-> "Feature-based",
                confidence |-> [num |-> 7, den |-> 10],
                indicators |-> found]>>
        ELSE <<>>

\* detectPatterns()
detectPatterns(dirs) ==
    detectByRatio("MVC", mvcIndicators, dirs)
    \o detectByRatio("Clean Architecture", cleanIndicators, dirs)
    \o detectFeatureBased(dirs)
    \o detectByRatio("Component-based", componentIndicators, dirs)
    \o detectByRatio("Service-based", serviceIndicators, dirs)

\* The indicators of every pattern, by the pattern's name.
IndicatorsOf ==
    [n \in {"MVC", "Clean Architecture", "Feature-based", "Component-based", "Service-based"} |->
        CASE n = "MVC" -> mvcIndicators
          [] n = "Clean Architecture" -> cleanIndicators
          [] n = "Feature-based" -> featureIndicators
          [] n = "Component-based" -> componentIndicators
          [] OTHER -> serviceIndicators]

\* The directories the detections look for, under src/ and under the root.
IndicatorDirs ==
    LET names == UNION {Range(IndicatorsOf[n]) : n \in DOMAIN IndicatorsOf}
    IN  {<<"src", n>> : n \in names} \cup {<<n>> : n \in names}

\* The sets of at most k of these directories.
RECURSIVE UpTo(_, _)
UpTo(all, k) ==
    IF k = 0 THEN {{}}
    ELSE LET fewer == UpTo(all, k - 1)
         IN  fewer \cup {some \cup {d} : some \in fewer, d \in all}

InitPatterns ==
    /\ IdleGeneration
    /\ NoProgress
    /\ onboarding = NoOnboarding
    /\ present \in UpTo(IndicatorDirs, MaxPresent)
    /\ patterns = Pending
    /\ quizFiles = NoQuizFiles /\ checked = Pending /\ quizzes = 0
    /\ taken = <<>> /\ given = <<>> /\ analysis = Pending
    /\ tree = <<>> /\ walked = Pending
    /\ shown = NoCurriculum /\ clicks = <<>>
    /\ NoSubscriptions

\* analyze(): const patterns = await this.detectPatterns()
DetectPatterns ==
    /\ patterns = Pending
    /\ patterns' = [list |-> detectPatterns(present)]
    /\ UNCHANGED <<parseVars, envVars, fileVars, runVars, progVars, onboarding, quizVars,
                   taken, given, analysis, tree, walked, present, viewVars, subVars>>

NextPatterns == DetectPatterns

SpecPatterns == InitPatterns /\ [][NextPatterns]_vars

\* ------------------------------------------ claims on the patterns
\* The number of indicators of that pattern that are directories of the
\* workspace, under src/ or under the root.
FoundOf(name) ==
    Cardinality({n \in Range(IndicatorsOf[name]) : <<"src", n>> \in present \/ <<n>> \in present})

\* The pattern's confidence is found / defined.
ByRatio(p) ==
    p.confidence.num * Len(IndicatorsOf[p.name]) = FoundOf(p.name) * p.confidence.den

\* C28 as stated: every reported pattern has confidence found / defined, and
\* is reported only with at least 2 indicators found, at least 1 for
\* Feature-based.
C28_ConfidenceIsRatio ==
    patterns # Pending =>
        \A i \in 1..Len(patterns.list) :
            LET p == patterns.list[i]
            IN  /\ ByRatio(p)
                /\ FoundOf(p.name) >= (IF p.name = "Feature-based" THEN 1 ELSE 2)

\* C28: every reported pattern other than Feature-based has confidence found
\* / defined and is reported only with at least 2 indicators found;
\* Feature-based is reported only with at least 1 indicator found, and its
\* confidence is 0.7 whether one or both of its indicators are found.
C28_ConfidenceIsRatioOrFixed ==
    patterns # Pending =>
        \A i \in 1..Len(patterns.list) :
            LET p == patterns.list[i]
            IN  /\ p.confidence.den > 0
                /\ IF p.name = "Feature-based"
                   THEN /\ FoundOf(p.name) >= 1
                        /\ p.confidence.num * 10 = 7 * p.confidence.den
                   ELSE /\ FoundOf(p.name) >= 2
                        /\ ByRatio(p)
                /\ Len(p.indicators) = FoundOf(p.name)

\* MVC with two of four indicators, one under src/, and Feature-based with
\* one of two were reported.
C28_Witness ==
    /\ patterns # Pending
    /\ present = {<<"src", "models">>, <<"routes">>, <<"features">>}
    /\ Len(patterns.list) = 2
    /\ patterns.list[1].name = "MVC"
    /\ patterns.list[1].confidence = [num |-> 2, den |-> 4]
    /\ patterns.list[2].name = "Feature-based"
    /\ patterns.list[2].confidence = [num |-> 7, den |-> 10]

\* ------------------------------------------------------ the curriculum view
\* CurriculumManager.statusToProto
statusToProto(status) ==
    CASE status = "not_started" -> "TASK_STATUS_NOT_STARTED"
      [] status = "in_progress" -> "TASK_STATUS_IN_PROGRESS"
      [] status = "completed"   -> "TASK_STATUS_COMPLETED"
      [] status = "skipped"     -> "TASK_STATUS_SKIPPED"

\* CurriculumManager.toProto: the stored curriculum as the view receives it.
curriculumToProto(data) ==
    [data EXCEPT !.chapters = [c \in 1..Len(data.chapters) |->
        [data.chapters[c] EXCEPT !.tasks = [k \in 1..Len(data.chapters[c].tasks) |->
            [data.chapters[c].tasks[k] EXCEPT !.status = statusToProto(@)]]]]]

\* getCurriculum: what the view receives.
getCurriculum(doc, workspace) ==
    IF workspace /\ doc.exists
    THEN [exists |-> TRUE, curriculum |-> curriculumToProto(doc)]
    ELSE [exists |-> FALSE]

\* A mutated cycle: a completed task stays completed.
getNextStatus_sticky(currentStatus) ==
    CASE currentStatus = "TASK_STATUS_NOT_STARTED" -> "TASK_STATUS_IN_PROGRESS"
      [] currentStatus = "TASK_STATUS_IN_PROGRESS" -> "TASK_STATUS_COMPLETED"
      [] currentStatus = "TASK_STATUS_COMPLETED"   -> "TASK_STATUS_COMPLETED"
      [] OTHER                                     -> "TASK_STATUS_NOT_STARTED"

\* CurriculumView.getNextStatus
getNextStatus(currentStatus) ==
    CASE currentStatus = "TASK_STATUS_NOT_STARTED" -> "TASK_STATUS_IN_PROGRESS"
      [] currentStatus = "TASK_STATUS_IN_PROGRESS" -> "TASK_STATUS_COMPLETED"
      [] currentStatus = "TASK_STATUS_COMPLETED"   -> "TASK_STATUS_NOT_STARTED"
      [] OTHER                                     -> "TASK_STATUS_NOT_STARTED"

\* CurriculumView.handleTaskStatusChange(taskId, newStatus) with view the
\* curriculum the view holds: the updateTaskProgress call, then setCurriculum
\* with the curriculum of a successful response.
handleTaskStatusChange(view, doc, file, workspace, taskId, newStatus, t, curriculumSaved, statisticsSaved) ==
    LET done == updateTaskProgress(doc, file, workspace, taskId, newStatus, t,
                                   curriculumSaved, statisticsSaved)
    IN  [shown      |-> IF done.response.success
                        THEN curriculumToProto(done.curriculum) ELSE view,
         curriculum |-> done.curriculum,
         statistics |-> done.statistics,
         response   |-> done.response,
         requested  |-> newStatus]

\* The onClick of the status checkbox of the k-th task of the c-th chapter
\* the view shows: onStatusChange(getNextStatus(task.status)).
onClick(view, doc, file, workspace, c, k, t, curriculumSaved, statisticsSaved) ==
    handleTaskStatusChange(view, doc, file, workspace, view.chapters[c].tasks[k].id,
                           getNextStatus(view.chapters[c].tasks[k].status), t,
                           curriculumSaved, statisticsSaved)

\* What the view's handlers never change.
viewRest == <<parseVars, envVars, fileVars, runVars, writesFail, outline, dates, streak,
              quizVars, scanVars, subVars>>

\* CurriculumView.loadCurriculum, on mount.
LoadCurriculum ==
    /\ LET got == getCurriculum(curriculum, hasWorkspace)
       IN  shown' = IF got.exists THEN got.curriculum ELSE shown
    /\ UNCHANGED <<viewRest, onboarding, curriculum, statistics, now, response, issued,
                   setBacks, clicks>>

\* A click on the status checkbox of a task the view shows, once the
\* response to the click before has been handled.
ClickStatus ==
    /\ shown.exists
    /\ Len(clicks) < MaxClicks
    /\ \E c \in 1..Len(shown.chapters) :
       \E k \in 1..Len(shown.chapters[c].tasks) :
       \E curriculumSaved \in WriteOutcomes, statisticsSaved \in WriteOutcomes :
          LET done == onClick(shown, curriculum, statistics, hasWorkspace, c, k, now,
                              curriculumSaved, statisticsSaved)
          IN  /\ shown' = done.shown
              /\ curriculum' = done.curriculum
              /\ statistics' = done.statistics
              /\ response' = done.response
              /\ clicks' = Append(clicks, [taskId |-> shown.chapters[c].tasks[k].id,
                                           status |-> done.requested,
                                           success |-> done.response.success])
    /\ UNCHANGED <<viewRest, onboarding, now, issued, setBacks>>

\* SpecView: one working day with the curriculum view open on a curriculum of
\* two chapters of one task; writes may fail or not.
InitView ==
    /\ IdleGeneration
    /\ curriculum = NoCurriculum /\ statistics = NoStatistics
    /\ now = Least(Instants) /\ response = NoResponse /\ issued = 0 /\ setBacks = 0
    /\ writesFail \in BOOLEAN /\ outline = <<1, 1>>
    /\ dates = <<>> /\ streak = Absent
    /\ onboarding = NoOnboarding
    /\ NoOther

NextView == LoadCurriculum \/ ClickStatus \/ GenerateCurriculum \/ AdvanceToday

SpecView == InitView /\ [][NextView]_vars

\* ------------------------------------------ claims on the curriculum view
\* The status after that one in the cycle not_started -> in_progress ->
\* completed -> not_started.
CycleNext ==
    [s \in {"TASK_STATUS_NOT_STARTED", "TASK_STATUS_IN_PROGRESS", "TASK_STATUS_COMPLETED"} |->
        IF s = "TASK_STATUS_NOT_STARTED" THEN "TASK_STATUS_IN_PROGRESS"
        ELSE IF s = "TASK_STATUS_IN_PROGRESS" THEN "TASK_STATUS_COMPLETED"
        ELSE "TASK_STATUS_NOT_STARTED"]

\* The clicks on that task, in order.
ClicksOn(taskId) == SelectSeq(clicks, LAMBDA click : click.taskId = taskId)

\* C30: a click on the status checkbox of a task shown with a status of the
\* cycle not_started -> in_progress -> completed -> not_started requests the
\* next status of the cycle; when the click succeeds the view shows and the
\* curriculum stores that status; the first click on a task requests
\* in_progress, and of two successive clicks on one task that both succeed
\* the second requests the status after the one the first requested.
C30_ClickCycles ==
    /\ shown.exists =>
          \A c \in 1..Len(shown.chapters) :
          \A k \in 1..Len(shown.chapters[c].tasks) :
          \A curriculumSaved \in WriteOutcomes, statisticsSaved \in WriteOutcomes :
             LET task == shown.chapters[c].tasks[k]
                 done == onClick(shown, curriculum, statistics, hasWorkspace, c, k, now,
                                 curriculumSaved, statisticsSaved)
             IN  task.status \in DOMAIN CycleNext =>
                    /\ done.requested = CycleNext[task.status]
                    /\ done.response.success =>
                          /\ done.shown.chapters[c].tasks[k].status = CycleNext[task.status]
                          /\ statusToProto(done.curriculum.chapters[c].tasks[k].status)
                                = CycleNext[task.status]
    /\ \A taskId \in TaskIdsOf(curriculum) :
          LET mine == ClicksOn(taskId)
          IN  \A i \in 1..Len(mine) :
                 IF i = 1 THEN mine[i].status = "TASK_STATUS_IN_PROGRESS"
                 ELSE mine[i - 1].success /\ mine[i].success =>
                         mine[i].status = CycleNext[mine[i - 1].status]

\* Three successful clicks on one task took it through in_progress and
\* completed back to not_started.
C30_Witness ==
    /\ Len(clicks) = 3
    /\ \A i \in 1..3 : clicks[i].success /\ clicks[i].taskId = clicks[1].taskId
    /\ clicks[1].status = "TASK_STATUS_IN_PROGRESS"
    /\ clicks[2].status = "TASK_STATUS_COMPLETED"
    /\ clicks[3].status = "TASK_STATUS_NOT_STARTED"
    /\ shown.exists
    /\ shown.chapters[1].tasks[1].id = clicks[1].taskId
    /\ shown.chapters[1].tasks[1].status = "TASK_STATUS_NOT_STARTED"
    /\ curriculum.chapters[1].tasks[1].status = "not_started"

\* ------------------------------------------ claims on prerequisites
\* The stored curriculum with every emitted prerequisite replaced by that id.
RequiringTask(doc, taskId) ==
    [doc EXCEPT !.chapters = [c \in 1..Len(doc.chapters) |->
        [doc.chapters[c] EXCEPT !.tasks = [k \in 1..Len(doc.chapters[c].tasks) |->
            [doc.chapters[c].tasks[k] EXCEPT
                !.prerequisites = IF @ = <<>> \/ doc.chapters[c].tasks[k].id = taskId
                                  THEN @ ELSE <<taskId>>]]]]]

\* The curricula a call may find stored: the stored one, whose prerequisites
\* name no task of the document, and the ones whose prerequisites name a
\* task of the document.
WithPrerequisites(doc) == {doc} \cup {RequiringTask(doc, id) : id \in TaskIdsOf(doc)}

\* C31: updateTaskStatus sets any task of the stored curriculum to any of the
\* four statuses whatever its current status, and whatever the statuses of
\* the tasks its prerequisites name, also when they name no task; the
\* prerequisites stay as stored.
C31_NoTransitionIsRefused ==
    curriculum.exists =>
        \A doc \in WithPrerequisites(curriculum) :
        \A taskId \in TaskIdsOf(doc), status \in TaskStatuses :
            LET updated == updateTaskStatus(doc, taskId, status, now)
            IN  /\ updated.found
                /\ StatusIn(updated.curriculum, taskId) = status
                /\ Blank(updated.curriculum, taskId) = Blank(doc, taskId)

\* The task of the second chapter is completed while the task its
\* prerequisites name is no task of the document and the task before it is
\* not started.
C31_Witness ==
    /\ curriculum.exists
    /\ response = Response("updateTaskProgress", TRUE, "")
    /\ curriculum.chapters[2].tasks[1].status = "completed"
    /\ curriculum.chapters[2].tasks[1].prerequisites # <<>>
    /\ \A i \in 1..Len(curriculum.chapters[2].tasks[1].prerequisites) :
          curriculum.chapters[2].tasks[1].prerequisites[i] \notin TaskIdsOf(curriculum)
    /\ curriculum.chapters[1].tasks[1].status = "not_started"

\* ------------------------------------------ claims on saving and sending
\* The stored document of the kind the request asks for.
StoredDoc == IF kind = "curriculum" THEN curriculumFile ELSE quizFile

\* C32: whenever a completed message is on the response stream, it is the
\* only completed message and the last message, and the document it carries
\* is the stored one; when the generator's completed event was not saved,
\* the stream ends in the error message and holds no completed message.
C32_CompletedAfterSave ==
    /\ \A i \in 1..Len(sent) :
          sent[i].phase = "completed" =>
              /\ i = Len(sent)
              /\ sent[i].doc # "none"
              /\ sent[i].doc = StoredDoc
    /\ (events # <<>> /\ LastOf(events).phase = "completed" /\ savedDoc = "none") =>
          /\ pc = "done"
          /\ LastOf(sent) = ErrorMsg
          /\ "completed" \notin Phases(sent)
          /\ StoredDoc # LastOf(events).doc

\* A generated curriculum was saved and the completed message sent.
C32_Witness ==
    /\ kind = "curriculum" /\ pc = "done"
    /\ events # <<>> /\ sent # <<>>
    /\ LastOf(events) = Ev("completed", 100, "new")
    /\ savedDoc = "new" /\ curriculumFile = "new"
    /\ LastOf(sent) = Msg("completed", 100, "new", TRUE)

\* The save of a generated quiz failed: the stream ends in the error message.
C32_WitnessSaveFailed ==
    /\ kind = "quiz" /\ pc = "done"
    /\ events # <<>> /\ sent # <<>>
    /\ LastOf(events) = Ev("completed", 100, "new")
    /\ savedDoc = "none" /\ quizFile # "new"
    /\ LastOf(sent) = ErrorMsg


\* ------------------------------------------ claims on failed requests
\* The curriculum request has ended in an error message.
EndedInError ==
    kind = "curriculum" /\ pc = "done" /\ sent # <<>> /\ LastOf(sent).phase = "error"

\* C33: a curriculum that is persisted when a generateCurriculum request
\* starts is still the persisted one when the request has ended in an error
\* message, forceRegenerate or not; stated for the requests whose first step
\* ends them (no workspace, no API configuration).
C33_ErrorKeepsCurriculum ==
    [][(kind = "curriculum" /\ pc = "init" /\ curriculumFile = "old" /\ EndedInError')
           => curriculumFile' = "old"]_vars

\* ------------------------------------------ claims on the served curriculum
\* A generateCurriculum request without forceRegenerate finds a loadable
\* curriculum persisted.
FindsCurriculum ==
    kind = "curriculum" /\ hasWorkspace /\ ~forceRegenerate /\ curriculumFile = "old"

\* C34: a generateCurriculum request without forceRegenerate that finds a
\* loadable curriculum persisted sends one message, completed at 100 percent
\* with that curriculum, and ends; it yields no event, calls the LLM never
\* and leaves the persisted curriculum as it is.
C34_ServesPersisted ==
    /\ [](FindsCurriculum =>
            /\ llmCalls = 0 /\ events = <<>> /\ savedDoc = "none"
            /\ \/ pc = "init" /\ sent = <<>>
               \/ pc = "done" /\ sent = <<Msg("completed", 100, "old", TRUE)>>)
    /\ [][FindsCurriculum =>
            /\ curriculumFile' = curriculumFile
            /\ llmCalls' = 0
            /\ pc' = "done"
            /\ sent' = <<Msg("completed", 100, "old", TRUE)>>]_vars

\* The persisted curriculum was served, with no API configuration at hand.
C34_Witness ==
    /\ FindsCurriculum /\ ~hasApiConfig
    /\ pc = "done"
    /\ sent = <<Msg("completed", 100, "old", TRUE)>>
    /\ llmCalls = 0

\* ------------------------------------------ claims on refused updates
\* C35: an updateTaskProgress call that answers success = false has changed
\* neither the persisted curriculum nor the persisted statistics.
C35_FailureChangesNothing ==
    [][(clicks' # clicks /\ ~response'.success) =>
          (curriculum' = curriculum /\ statistics' = statistics)]_vars

\* ------------------------------------------ claims on the time total
\* The sum of timeSpentMinutes over the entries of a taskStats list.
RECURSIVE SumSpent(_)
SumSpent(taskStats) ==
    IF taskStats = <<>> THEN 0
    ELSE Head(taskStats).timeSpentMinutes + SumSpent(Tail(taskStats))

\* The record's total is the sum over its entries.
TotalIsSum(stats) == stats.actualTimeSpentMinutes = SumSpent(stats.taskStats)

\* C36: in the persisted statistics, and in every record that
\* updateTaskStatistics, getOrCreateStatistics or recordActivity would save
\* next, actualTimeSpentMinutes is the sum of timeSpentMinutes over taskStats.
C36_TotalIsSumOfTasks ==
    /\ statistics.exists => TotalIsSum(statistics)
    /\ curriculum.exists =>
          /\ \A taskId \in TaskIdsOf(curriculum), old \in TaskStatuses, new \in TaskStatuses :
                TotalIsSum(updateTaskStatistics(statistics, taskId, old, new, curriculum, now))
          /\ TotalIsSum(getOrCreateStatistics(statistics, curriculum, now).statistics)
          /\ TotalIsSum(recordActivity(getOrCreateStatistics(statistics, curriculum, now).statistics,
                                       now).statistics)

\* Time was recorded for the task and the record was rewritten the day after
\* by recordActivity.
C36_Witness ==
    /\ statistics.exists
    /\ statistics.actualTimeSpentMinutes > 0
    /\ Len(statistics.taskStats) = 1
    /\ statistics.taskStats[1].timeSpentMinutes = statistics.actualTimeSpentMinutes
    /\ statistics.taskStats[1].completedAt < statistics.lastActivityTime
    /\ curriculum.chapters[1].tasks[1].status = "completed"


\* ------------------------------------------ claims on the stored quiz
\* Every answer of quiz-answers.json is the answer to a question of quiz.json.
AnswersOfPersistedQuiz(files) ==
    \A i \in 1..Len(getAnswers(files)) :
        /\ files.quiz.exists
        /\ findQuestion(files.quiz.questions, getAnswers(files)[i].questionId) > 0

C38_ResultOfPersistedQuiz ==
    quizFiles.result.exists =>
        (quizFiles.quiz.exists /\ quizFiles.result.data.quizId = quizFiles.quiz.id)


\* ------------------------------------------------------------ SpecSubscribe
\* subscribeToLearningButtonClicked: the response stream joins the Set; the
\* cleanup is registered with the request registry when a requestId came.
subscribeToLearningButtonClicked(subs, all, s, requestId) ==
    [active |-> subs \cup {s},
     all    |-> [all EXCEPT ![s].request = IF requestId THEN "open" ELSE "unregistered"]]

\* cleanup, which the request registry runs when the request is closed.
cleanup(subs, s) == subs \ {s}

\* A mutated catch: the error is logged, the response stream stays in the Set.
onSendError_logOnly(subs, s) == subs

\* The catch of a send: the response stream leaves the Set.
onSendError(subs, s) == subs \ {s}

\* The response streams left in the Set after those of thrown ran the catch.
RECURSIVE afterErrors(_, _)
afterErrors(subs, thrown) ==
    IF thrown = {} THEN subs
    ELSE LET s == Least(thrown)
         IN  afterErrors(onSendError(subs, s), thrown \ {s})

\* sendLearningButtonClickedEvent up to its await Promise.all: responseStream
\* is called once with the event for every member of Array.from(Set), in
\* the same turn; the calls of thrown throw at once and run the catch, the
\* other calls are pending.
sendLearningButtonClickedEvent(subs, all, event, thrown) ==
    [active |-> afterErrors(subs, thrown),
     all    |-> [s \in Subscribers |->
                    IF s \notin subs THEN all[s]
                    ELSE IF s \in thrown
                    THEN [all[s] EXCEPT !.handed = Append(@, event), !.failed = TRUE]
                    ELSE [all[s] EXCEPT !.handed = Append(@, event),
                                        !.pending = @ \cup {event}]]]

\* A pending responseStream call settles: it resolves, or it rejects and the
\* catch runs.
settle(subs, all, s, event, resolved) ==
    [active |-> IF resolved THEN subs ELSE onSendError(subs, s),
     all    |-> [all EXCEPT ![s].pending = @ \ {event},
                            ![s].failed = @ \/ ~resolved]]

subRest == <<parseVars, envVars, fileVars, runVars, progVars, onboarding, quizVars, scanVars,
             viewVars>>

\* A subscribeToLearningButtonClicked request with a response stream of its
\* own (the s-th request brings the s-th stream), with or without a requestId.
SubscribeToLearningButtonClicked ==
    /\ \E s \in Subscribers, requestId \in BOOLEAN :
          /\ streams[s].request = "none"
          /\ \A other \in 1..(s - 1) : streams[other].request # "none"
          /\ LET done == subscribeToLearningButtonClicked(
                             activeLearningButtonClickedSubscriptions, streams, s, requestId)
             IN  /\ activeLearningButtonClickedSubscriptions' = done.active
                 /\ streams' = done.all
    /\ UNCHANGED <<subRest, sends>>

\* A registered request is closed: the registry runs its cleanup.
CloseRequest ==
    /\ \E s \in Subscribers :
          /\ streams[s].request = "open"
          /\ activeLearningButtonClickedSubscriptions' =
                 cleanup(activeLearningButtonClickedSubscriptions, s)
          /\ streams' = [streams EXCEPT ![s].request = "closed"]
    /\ UNCHANGED <<subRest, sends>>

\* A sendLearningButtonClickedEvent call, up to its await.
SendLearningButtonClickedEvent ==
    /\ sends < MaxSends
    /\ sends' = sends + 1
    /\ \E thrown \in SUBSET activeLearningButtonClickedSubscriptions :
          LET done == sendLearningButtonClickedEvent(
                          activeLearningButtonClickedSubscriptions, streams, sends + 1, thrown)
          IN  /\ activeLearningButtonClickedSubscriptions' = done.active
              /\ streams' = done.all
    /\ UNCHANGED subRest

\* One of the pending responseStream calls settles.
SettleSend ==
    /\ \E s \in Subscribers, resolved \in BOOLEAN :
          \E event \in streams[s].pending :
              LET done == settle(activeLearningButtonClickedSubscriptions, streams, s, event,
                                 resolved)
              IN  /\ activeLearningButtonClickedSubscriptions' = done.active
                  /\ streams' = done.all
    /\ UNCHANGED <<subRest, sends>>

\* No curriculum, no quiz and no subscription.
InitSubscribe == InitWorkspace(<<>>)

NextSubscribe ==
    \/ SubscribeToLearningButtonClicked
    \/ CloseRequest
    \/ SendLearningButtonClickedEvent
    \/ SettleSend

SpecSubscribe == InitSubscribe /\ [][NextSubscribe]_vars

\* ------------------------------------------ claims on the subscriptions
\* The response stream has left for good: one of its calls failed, or its
\* request was closed.
Gone(s) == streams[s].failed \/ streams[s].request = "closed"

\* No event was handed to the response stream twice.
HandedOnce(s) ==
    \A i, j \in 1..Len(streams[s].handed) :
        streams[s].handed[i] = streams[s].handed[j] => i = j

\* C39: however the subscribe calls, the closes of requests, the send calls
\* and the outcomes of their responseStream calls interleave, a response
\* stream one of whose calls failed or whose request was closed is in the
\* Set no more and is handed no further event; a send call hands its event
\* once to every response stream in the Set at the call, whichever of the
\* calls fail, and to no other; no response stream is handed an event twice.
C39_SubscribersGetEachEventOnce ==
    /\ [](\A s \in Subscribers :
             /\ Gone(s) => s \notin activeLearningButtonClickedSubscriptions
             /\ HandedOnce(s))
    /\ [][\A s \in Subscribers :
             /\ Gone(s) => streams'[s].handed = streams[s].handed
             /\ sends' # sends =>
                   streams'[s].handed =
                       IF s \in activeLearningButtonClickedSubscriptions
                       THEN Append(streams[s].handed, sends')
                       ELSE streams[s].handed
             /\ sends' = sends => streams'[s].handed = streams[s].handed]_vars

\* Both response streams were handed the first event; the call of the first
\* failed and its request was closed, the call of the second resolved, and
\* the second event was handed to the second alone.
C39_Witness ==
    /\ sends = 2
    /\ streams[1].failed /\ streams[1].request = "closed" /\ streams[1].handed = <<1>>
    /\ streams[2].handed = <<1, 2>> /\ streams[2].pending = {} /\ ~Gone(2)
    /\ activeLearningButtonClickedSubscriptions = {2}

====
